---- MODULE Spec2Model ----
(***************************************************************************)
(* Verification model of the adnexus SSP backend (Go).                     *)
(*                                                                         *)
(* Spec        : AuctionEngine.RunAuction called on a responses map that   *)
(*               the caller assembles (backend/pkg/ssp.go).                *)
(*                                                                         *)
(* SpecFanout  : one ad request through an ingress path that fans out to   *)
(*               the active partners: SSPService.handleAdRequest           *)
(*               (backend/cmd/ssp/main.go) or PublicaHandler.HandleSSAI    *)
(*               over SSP.processRequest (backend/pkg/ssp.go).             *)
(*                                                                         *)
(* SpecProcess : SSP.processRequest alone, its goroutines scheduled        *)
(*               fairly.                                                   *)
(*                                                                         *)
(* SpecCancel  : SpecFanout with an ingress caller that may disconnect.    *)
(*                                                                         *)
(* SpecRegistry: the fan-out with PartnerManager.AddPartner interleaved.   *)
(*                                                                         *)
(* SpecCall    : one partner call through one dispatch path, down to the   *)
(*               request headers and the (response, err) handed back.      *)
(*                                                                         *)
(* SpecSchain  : the supply chain constructors, ValidateSupplyChain,       *)
(*               ToJSON, FromJSON, AddToSource and ExtractFromSource       *)
(*               (unnamed/part_008).                                       *)
(*                                                                         *)
(* SpecBuild   : BidRequestBuilder.BuildBidRequest on one placement.       *)
(*                                                                         *)
(* SpecEngine  : Spec with placement floors and prices on both sides of    *)
(*               the engine's own minimum floor.                           *)
(*                                                                         *)
(* SpecSellers : SellersJSONGenerator.GenerateFromPublishers               *)
(*               (backend/pkg/sellers_json.go).                            *)
(*                                                                         *)
(* SpecCache   : SellersJSONCache under Set, Get, IsExpired, Clear and the *)
(*               passage of time.                                          *)
(*                                                                         *)
(* SpecTrack   : the ad request, impression and click handlers with their  *)
(*               logging goroutines and the telemetry sink.                *)
(*                                                                         *)
(* SpecPublica : PublicaHandler.HandleSSAI and HandleVAST, from the parsed *)
(*               request to the answer (unnamed/part_005).                 *)
(*                                                                         *)
(* SpecAd      : SSPService.handleAdRequest and handleVASTRequest, from    *)
(*               the request to the answer.                                *)
(*                                                                         *)
(* SpecXform   : BidsCubePartner.transformRequest in one task while        *)
(*               another task marshals the same request.                   *)
(*                                                                         *)
(* SpecManager : PartnerManager under AddPartner and SendToPartner.        *)
(*                                                                         *)
(* Prices are integers in tenths of a cent of USD CPM (0.10 is 100); the   *)
(* code compares them with >, >= and < and scales them by (1 - revShare),  *)
(* taken here as exact arithmetic. Times are milliseconds.                 *)
(***************************************************************************)
EXTENDS Naturals, Integers, Sequences, FiniteSets, TLC

\* ------------------------------------------------------------------------
\* Bounds of the model
\* ------------------------------------------------------------------------
MaxSeatBids == 2
MaxBids == 2
MaxTotalBids == 3

\* Partner identifiers, ordered alphabetically by PartnerRank.
PartnerIDs == {"A", "B"}
PartnerRank(p) == IF p = "A" THEN 1 ELSE IF p = "B" THEN 2 ELSE 3

\* Bid prices and placement floors the inputs are drawn from.
Prices == {50, 100, 200}
Floors == {100, 200}

VARIABLES
    responses,      \* map[*DemandPartner]*BidResponse handed to RunAuction
    floor,          \* placement.MinBidFloor (the SSAI request's floor_price)
    perIterLoopVar, \* the build: TRUE when range variables are per iteration
                    \* (go >= 1.22), FALSE when one variable serves the loop
    result,         \* *AuctionResult returned by RunAuction
    auctionErr,     \* error returned by RunAuction
    pc,             \* "build" while the caller assembles the map, then "done"
                    \* ("idle" where no auction is modelled)
    \* --- the fan-out of one ad request
    path,           \* ingress path: "adrequest", "ssai" ("none" under Spec)
    active,         \* SupplyPartner.Active of each registered partner
    timeout,        \* SupplyPartner.Timeout of each registered partner (ms)
    reply,          \* what each partner's endpoint does with a request
    snapshot,       \* the slice GetActivePartners returned to this request
    tstate,         \* per partner: "idle", "queued", "in_flight",
                    \* "delivered" (result handed over), "done"
    outcome,        \* per partner: "none", "responded", "no_bid", "error",
                    \* "timeout", "cancelled"
    sentAt,         \* clock at which the request to the partner was issued
    clock,          \* ms since the handler began the fan-out
    resultCh,       \* processRequest: the buffered result channel
    chClosed,       \* processRequest: resultCh has been closed
    wgCount,        \* processRequest: the WaitGroup counter
    bidResponses,   \* processRequest: responses kept, in arrival order
    winningResponse,\* processRequest: what selectWinner returned
    httpStatus,     \* status written to the ingress caller, 0 before
    fpc,            \* handler position: "idle", "start", "loop", "collect",
                    \* "done"
    nSent,          \* per partner: requests issued to it for this ad request
    nDelivered,     \* per partner: results its task sent on resultCh
    disconnected,   \* the ingress caller has gone away (its request context
                    \* is cancelled)
    \* --- one partner call through one dispatch path
    dispatch,       \* "handleAdRequest", "processRequest", "SendToPartner"
    partner,        \* the SupplyPartner passed in: Type and APIKey
    exadsClient,    \* PartnerManager.exadsClient: "nil" or the client's key
    endpoint,       \* what the partner endpoint / the context does
    reqSent,        \* an HTTP request went out
    reqHeaders,     \* its headers, a set of <<name, value>>
    callRet,        \* (response, err) handed back to the caller
    cpc,            \* "idle", "call", "done"
    \* --- the supply chain functions
    ourASI,         \* SupplyChainBuilder.ourASI
    publisherID,    \* the publisherID argument
    nodesIn,        \* nodes of the input: intermediaries, chain, JSON document
    verIn,          \* ver of the input chain / JSON document
    jsonIn,         \* shape of the JSON text handed to a parse
    extIn,          \* what Source / Source.Ext holds for ExtractFromSource
    source,         \* the *Source handed to AddToSource, at first holding
                    \* extIn
    schainOp,       \* the function applied, "" before
    schainOut,      \* its (chain, err)
    \* --- BidRequestBuilder.BuildBidRequest
    placement,      \* the *Placement argument
    uuidSeed,       \* UUIDs this process has drawn so far
    bidReq,         \* the *BidRequest returned
    buildErr,       \* the error returned
    bpc,            \* "idle", "input", "done"
    \* --- SellersJSONGenerator.GenerateFromPublishers
    publishers,     \* the []Publisher argument
    sellersOut,     \* the *SellersJSON returned
    spc,            \* "idle", "input", "done"
    \* --- SellersJSONCache
    cacheData,      \* SellersJSONCache.data ("nil" for a nil slice)
    cacheUpdatedAt, \* SellersJSONCache.updatedAt (0: the zero time)
    cacheTTL,       \* SellersJSONCache.ttl
    now,            \* time.Now()
    sinceClear,     \* the data of the latest Set after the latest Clear,
                    \* "none" when there was no Set
    sinceSet,       \* time elapsed since that Set
    cacheRet,       \* what the latest call returned, until the next
                    \* Set, Clear or passage of time
    \* --- the tracking endpoints and the telemetry sink
    sinkConfig,     \* "disabled" (CLICKHOUSE_ENABLED false), "refused"
                    \* (NewAnalyticsStore failed), "connected"
    analyticsStore, \* SSPService.analyticsStore: "nil" or "up"
    processUp,      \* the process is running
    handling,       \* the request a handler is in the middle of
    goroutines,     \* the logging goroutines started and not yet run
    impressionLog,  \* the impression records the sink holds
    dropped,        \* appends that returned an error
    hits,           \* per bid id: requests the impression endpoint took
    answers,        \* the HTTP responses written, oldest first
    publisherRevenue,\* the ssp_publisher_revenue_total counter
    auctionTotal,   \* the ssp_auctions_total counter
    impressionsTotal,\* the ssp_impressions_total counter
    \* --- the Publica ingress
    pubReq,         \* the parsed request: handler, deal id, floor, params.size
    pubReplies,     \* per partner: what its transport hands to processRequest
    pubBidRequest,  \* the openrtb2.BidRequest the handler built
    pubAnswer,      \* the HTTP response the handler wrote
    ppc,            \* "input", then "done" ("idle" elsewhere)
    \* --- the ad endpoints /ad/request and /vast/:placement_id
    adReq,          \* the request, what the catalog store answers, what
                    \* each partner's transport returns
    adResult,       \* handleAdRequest: the *AuctionResult of RunAuction
    adAnswer,       \* the HTTP response written
    adContacted,    \* the partners Bidder.SendBidRequest was called for
    adAuctions,     \* calls of RunAuction
    winNotices,     \* the win notices sent, oldest first
    apc,            \* "input", then "done" ("idle" elsewhere)
    \* --- one request handed to a whitelabel and a direct partner task
    xOrig,          \* the BidRequest as processRequest received it
    xReq,           \* the caller's BidRequest and the Source it points to
    xTransformed,   \* the whitelabel task's copy
    xSent,          \* per partner: the request body marshalled and sent
    xpc,            \* per partner: the position of its task
    \* --- the PartnerManager
    pmPartners,     \* PartnerManager.partners: the identifiers registered
    pmExadsClient,  \* PartnerManager.exadsClient
    pmDelivery      \* the latest SendToPartner: for which partner, and the
                    \* URL, key header and client timeout of its request

auctionVars == <<responses, floor, perIterLoopVar, result, auctionErr, pc>>
fanVars ==
    <<path, active, timeout, reply, snapshot, tstate, outcome, sentAt, clock,
      resultCh, chClosed, wgCount, bidResponses, winningResponse, httpStatus,
      fpc, nSent, nDelivered, disconnected>>
callVars ==
    <<dispatch, partner, exadsClient, endpoint, reqSent, reqHeaders, callRet, cpc>>
schainVars ==
    <<ourASI, publisherID, nodesIn, verIn, jsonIn, extIn, source, schainOp,
      schainOut>>
buildVars == <<placement, uuidSeed, bidReq, buildErr, bpc>>
\* the variables of the specifications that stand apart from the auction,
\* the fan-out, the partner call and the supply chain
sellersVars == <<publishers, sellersOut, spc>>
cacheVars ==
    <<cacheData, cacheUpdatedAt, cacheTTL, now, sinceClear, sinceSet, cacheRet>>
trackVars ==
    <<sinkConfig, analyticsStore, processUp, handling, goroutines,
      impressionLog, dropped, hits, answers, publisherRevenue, auctionTotal,
      impressionsTotal>>
pubVars == <<pubReq, pubReplies, pubBidRequest, pubAnswer, ppc>>
adVars ==
    <<adReq, adResult, adAnswer, adContacted, adAuctions, winNotices, apc>>
xformVars == <<xOrig, xReq, xTransformed, xSent, xpc>>
mgrVars == <<pmPartners, pmExadsClient, pmDelivery>>
extVars == <<pubVars, adVars, xformVars, mgrVars>>
auxVars == <<buildVars, sellersVars, cacheVars, trackVars, extVars>>
vars == <<auctionVars, fanVars, callVars, schainVars, auxVars>>

\* ------------------------------------------------------------------------
\* Data
\* ------------------------------------------------------------------------
\* type Bid: the fields the auction reads
NoBid == [id |-> 0, price |-> 0]

\* A map slot: no key ("absent"), a nil *BidResponse ("nil") or a response
\* with its SeatBid list, each seatbid being its Bid list.
AbsentResponse == [state |-> "absent", seatbid |-> <<>>]
NilResponse == [state |-> "nil", seatbid |-> <<>>]
EmptyResponse == [state |-> "resp", seatbid |-> <<>>]

\* A nil *AuctionResult
NilResult ==
    [isNil |-> TRUE, WinningBid |-> NoBid, WinningPartner |-> "",
     AllBids |-> <<>>, AuctionType |-> 0, ClearedPrice |-> 0]

RECURSIVE SumLen(_)
SumLen(ss) == IF ss = <<>> THEN 0 ELSE Len(Head(ss)) + SumLen(Tail(ss))

RECURSIVE TotalBidsOf(_, _)
TotalBidsOf(resps, ps) ==
    IF ps = {} THEN 0
    ELSE LET p == CHOOSE q \in ps : TRUE
         IN SumLen(resps[p].seatbid) + TotalBidsOf(resps, ps \ {p})

TotalBids(resps) == TotalBidsOf(resps, DOMAIN resps)

\* All orders in which a Go map range may visit the keys ks.
RECURSIVE Orders(_)
Orders(ks) ==
    IF ks = {} THEN {<<>>}
    ELSE UNION {{<<k>> \o o : o \in Orders(ks \ {k})} : k \in ks}

PresentKeys(resps) == {p \in DOMAIN resps : resps[p].state # "absent"}

\* ------------------------------------------------------------------------
\* AuctionEngine.RunAuction
\* ------------------------------------------------------------------------
\* the floor filter: bid.Price >= placement.MinBidFloor
BidAdmittedAll(bid, fl) == TRUE
BidAdmitted(bid, fl) == bid.price >= fl

\* What the pointer &bid taken in iteration k of `for _, bid := range
\* seatBid.Bid` reads once the loop is over: the bid of its own iteration when
\* the variable is per iteration, the last bid of the seatbid when one
\* variable serves the whole loop.
LoopVarDeref(sb, k, perIter) == IF perIter THEN sb[k] ELSE sb[Len(sb)]

\* inner loop over one seatbid, from index k
RECURSIVE CollectSeatBid(_, _, _, _, _)
CollectSeatBid(sb, p, fl, perIter, k) ==
    IF k > Len(sb) THEN <<>>
    ELSE (IF BidAdmitted(sb[k], fl)
          THEN <<[Bid |-> LoopVarDeref(sb, k, perIter), Partner |-> p]>>
          ELSE <<>>)
         \o CollectSeatBid(sb, p, fl, perIter, k + 1)

\* loop over the seatbids of one response
RECURSIVE CollectResponse(_, _, _, _)
CollectResponse(sbs, p, fl, perIter) ==
    IF sbs = <<>> THEN <<>>
    ELSE CollectSeatBid(Head(sbs), p, fl, perIter, 1)
         \o CollectResponse(Tail(sbs), p, fl, perIter)

\* loop over the map in the order the range visits it; nil responses skipped
RECURSIVE CollectBids(_, _, _, _)
CollectBids(resps, order, fl, perIter) ==
    IF order = <<>> THEN <<>>
    ELSE LET p == Head(order)
         IN (IF resps[p].state = "nil" THEN <<>>
             ELSE CollectResponse(resps[p].seatbid, p, fl, perIter))
            \o CollectBids(resps, Tail(order), fl, perIter)

Swap(s, i, j) == [s EXCEPT ![i] = s[j], ![j] = s[i]]

\* for j := i + 1; j < len; j++ { if allBids[j].Price > allBids[i].Price { swap } }
RECURSIVE SortInner(_, _, _)
SortInner(s, i, j) ==
    IF j > Len(s) THEN s
    ELSE SortInner(IF s[j].Bid.price > s[i].Bid.price THEN Swap(s, i, j) ELSE s,
                   i, j + 1)

\* for i := 0; i < len-1; i++
RECURSIVE SortOuter(_, _)
SortOuter(s, i) ==
    IF i >= Len(s) THEN s ELSE SortOuter(SortInner(s, i, i + 1), i + 1)

SortBids(s) == SortOuter(s, 1)

\* cleared price of the sorted, non-empty allBids
ClearedPriceOf(allBids, fl) ==
    LET clearedPrice == IF Len(allBids) > 1 THEN allBids[2].Bid.price ELSE fl
    IN IF clearedPrice < fl THEN fl ELSE clearedPrice

RunAuction(resps, order, fl, perIter) ==
    LET collected == CollectBids(resps, order, fl, perIter)
    IN IF Len(collected) = 0 THEN NilResult
       ELSE LET allBids == SortBids(collected)
            IN [isNil |-> FALSE,
                WinningBid |-> allBids[1].Bid,
                WinningPartner |-> allBids[1].Partner,
                AllBids |-> allBids,
                AuctionType |-> 2,
                ClearedPrice |-> ClearedPriceOf(allBids, fl)]

\* ------------------------------------------------------------------------
\* The fan-out: partner registry, transports, deadlines
\* ------------------------------------------------------------------------
\* BidRequest.Tmax set by BuildBidRequest (ms)
Tmax == 120
\* NewBidder(sspID, 120*time.Millisecond): Timeout of the Bidder's http.Client
BidderTimeout == 120
\* HandleSSAI: context.WithTimeout(context.Background(), 200*time.Millisecond)
SSAITimeout == 200
\* NewBidsCubePartner: http.Client{Timeout: 100 * time.Millisecond}
BidsCubeClientTimeout == 100
\* ADNEXUS_REV_SHARE default "0.30", in percent
RevSharePct == 30

\* SupplyPartner.Timeout values: the 100 ms main() registers, and a longer one
Timeouts == {100, 300}
\* time a partner endpoint takes to answer (ms)
Latencies == {20, 110}
\* SeatBid lists of the partner answers: a bid at or above every floor, and a
\* bid below every floor
CannedSeatBids ==
    {<<<<[id |-> 11, price |-> 200]>>>>, <<<<[id |-> 11, price |-> 50]>>>>}

\* SupplyPartner.Type: main() registers a whitelabel partner ("adnexus") and
\* a DSP ("dsp")
PartnerType(p) == IF p = "A" THEN "adnexus" ELSE "dsp"

\* a partner endpoint: answers 200 with a body ("bid"), 204 ("nobid"), 500
\* ("error") after latency ms, or never answers ("silent")
SilentReply == [kind |-> "silent", latency |-> 0, seatbid |-> <<>>]
Replies ==
    {SilentReply}
    \cup {[kind |-> k, latency |-> 20, seatbid |-> <<>>] : k \in {"nobid", "error"}}
    \cup {[kind |-> "bid", latency |-> l, seatbid |-> sb] :
              l \in Latencies, sb \in CannedSeatBids}

MinOf(a, b) == IF a <= b THEN a ELSE b

SeqRange(sq) == {sq[i] : i \in 1..Len(sq)}

\* PartnerManager.GetActivePartners: the partners with Active set, in the
\* order the map range visits them (every order is possible)
GetAllPartners(act) == Orders(DOMAIN act)
GetActivePartners(act) == Orders({p \in DOMAIN act : act[p]})

\* handleAdRequest: the call to a partner is bounded by the context of
\* partner.Timeout and by the Timeout of the Bidder's client
AdRequestDeadline(to) == MinOf(to, BidderTimeout)

\* processRequest task: partnerCtx is a child of the 200 ms context with
\* p.Timeout; the BidsCube client adds its own 100 ms, sendOpenRTBRequest's
\* client has Timeout p.Timeout
ProcessDeadline(ptype, to) ==
    IF ptype = "adnexus"
    THEN MinOf(MinOf(to, SSAITimeout), BidsCubeClientTimeout)
    ELSE MinOf(MinOf(to, SSAITimeout), to)

\* client.Do under deadline d against an endpoint behaving as r
CallTimesOut(r, d) == r.kind = "silent" \/ r.latency >= d
CallDuration(r, d) == IF CallTimesOut(r, d) THEN d ELSE r.latency
CallOutcome(r, d) ==
    IF CallTimesOut(r, d) THEN "timeout"
    ELSE IF r.kind = "bid" THEN "responded"
    ELSE IF r.kind = "nobid" THEN "no_bid"
    ELSE "error"

\* (response, err) of Bidder.SendBidRequest / SSP.sendOpenRTBRequest:
\* 204 -> (nil, nil); 200 -> (&bidResp, nil); anything else -> (nil, err)
TransportReturn(r, oc) ==
    IF oc = "responded"
    THEN [response |-> [state |-> "resp", seatbid |-> r.seatbid], err |-> FALSE]
    ELSE IF oc = "no_bid" THEN [response |-> NilResponse, err |-> FALSE]
    ELSE [response |-> NilResponse, err |-> TRUE]

\* BidsCubePartner.applyRevShare: Price = Price * (1 - revShare) on every bid
applyRevShare(sbs) ==
    [s \in 1..Len(sbs) |->
        [b \in 1..Len(sbs[s]) |->
            [sbs[s][b] EXCEPT !.price = (@ * (100 - RevSharePct)) \div 100]]]

\* (response, err) of BidsCubePartner.SendBidRequest
BidsCubeReturn(r, oc) ==
    IF oc = "responded"
    THEN [response |-> [state |-> "resp", seatbid |-> applyRevShare(r.seatbid)],
          err |-> FALSE]
    ELSE TransportReturn(r, oc)

\* the switch on p.Type in the processRequest task
TaskReturnValue(ptype, r, oc) ==
    IF ptype = "adnexus" THEN BidsCubeReturn(r, oc) ELSE TransportReturn(r, oc)

\* handleAdRequest after SendBidRequest: an error is logged and the loop
\* continues; a non-nil response goes into the map under the partner
StoreOutcomeAbort(resps, p, ret) ==
    IF ret.err THEN [q \in DOMAIN resps |-> AbsentResponse]
    ELSE IF ret.response.state = "resp" THEN [resps EXCEPT ![p] = ret.response]
    ELSE resps
StoreOutcome(resps, p, ret) ==
    IF ret.err THEN resps
    ELSE IF ret.response.state = "resp" THEN [resps EXCEPT ![p] = ret.response]
    ELSE resps

\* processRequest collecting one partnerResult: an error is logged and
\* skipped; a non-nil response with at least one seatbid is kept
KeepResult(brs, res) ==
    IF res.err THEN brs
    ELSE IF res.response.state = "resp" /\ Len(res.response.seatbid) > 0
    THEN Append(brs, [partner |-> res.partner, seatbid |-> res.response.seatbid])
    ELSE brs

\* a nil *openrtb2.BidResponse out of selectWinner
NilWinning == [isNil |-> TRUE, partner |-> "", seatbid |-> <<>>]

\* the prices selectWinner visits, in order, each with the index of its response
RECURSIVE FlatSeatBids(_, _)
FlatSeatBids(sbs, k) ==
    IF sbs = <<>> THEN <<>>
    ELSE [b \in 1..Len(Head(sbs)) |-> [resp |-> k, price |-> Head(sbs)[b].price]]
         \o FlatSeatBids(Tail(sbs), k)

RECURSIVE FlatResponses(_, _)
FlatResponses(brs, k) ==
    IF k > Len(brs) THEN <<>>
    ELSE FlatSeatBids(brs[k].seatbid, k) \o FlatResponses(brs, k + 1)

\* if bid.Price > highestPrice { highestPrice = bid.Price; winningResponse = response }
RECURSIVE SelectFold(_, _, _)
SelectFold(flat, highestPrice, win) ==
    IF flat = <<>> THEN win
    ELSE IF Head(flat).price > highestPrice
         THEN SelectFold(Tail(flat), Head(flat).price, Head(flat).resp)
         ELSE SelectFold(Tail(flat), highestPrice, win)

selectWinner(brs) ==
    LET w == SelectFold(FlatResponses(brs, 1), 0, 0)
    IN IF w = 0 THEN NilWinning
       ELSE [isNil |-> FALSE, partner |-> brs[w].partner, seatbid |-> brs[w].seatbid]

\* ------------------------------------------------------------------------
\* One partner call: the five transports, their headers and their returns
\* ------------------------------------------------------------------------
\* SupplyPartner.Type values: the three main() registers and "openrtb"
PartnerTypes == {"adnexus", "dsp", "exads", "openrtb"}
\* SupplyPartner.APIKey: none configured, or the partner's key
APIKeys == {"", "key-1"}

\* what comes back from client.Do: a reply with status and body, a connection
\* that is refused, a deadline that expires first, a context cancelled first
NoEndpoint == [kind |-> "none", status |-> 0, body |-> ""]
Endpoints ==
    {[kind |-> "reply", status |-> 200, body |-> "json"],
     [kind |-> "reply", status |-> 200, body |-> "malformed"],
     [kind |-> "reply", status |-> 204, body |-> ""],
     [kind |-> "reply", status |-> 404, body |-> "json"],
     [kind |-> "reply", status |-> 500, body |-> ""],
     [kind |-> "refused", status |-> 0, body |-> ""],
     [kind |-> "deadline", status |-> 0, body |-> ""],
     [kind |-> "cancelled", status |-> 0, body |-> ""]}

\* the SeatBid list a well-formed 200 body decodes to
CallSeatBid == <<<<[id |-> 11, price |-> 200]>>>>

\* PartnerManager.exadsClient: nil, or the client NewEXADSClient built with
\* the key of the partner it was created for
NilEXADSClient == [isNil |-> TRUE, apiKey |-> ""]
NewEXADSClient(apiKey) == [isNil |-> FALSE, apiKey |-> apiKey]
EXADSClients == {NilEXADSClient, NewEXADSClient("key-0"), NewEXADSClient("key-1")}

\* (response, err) of a transport; err is "nil" or names the failing step,
\* a failed client.Do wrapping its cause
NoReturn == [response |-> NilResponse, err |-> "unset"]
ErrReturn(e) == [response |-> NilResponse, err |-> e]
NoCall == [sent |-> FALSE, headers |-> {}, ret |-> NoReturn]

\* req.Header.Set("Content-Type", ...); req.Header.Set("X-OpenRTB-Version", "2.5")
BaseHeaders ==
    {<<"Content-Type", "application/json">>, <<"X-OpenRTB-Version", "2.5">>}

\* resp, err := client.Do(req); if err != nil { return nil, fmt.Errorf("...: %w", err) }
DoError(ep) ==
    IF ep.kind = "refused" THEN "send:refused"
    ELSE IF ep.kind = "deadline" THEN "send:deadline"
    ELSE "send:cancelled"

\* the checks every transport makes on the reply: 204 is a no-bid, any other
\* status but 200 an error, then the body is decoded
StatusMappingLenient(ep) ==
    IF ep.status # 200 THEN [response |-> NilResponse, err |-> "nil"]
    ELSE IF ep.body # "json" THEN ErrReturn("decode")
    ELSE [response |-> [state |-> "resp", seatbid |-> CallSeatBid], err |-> "nil"]
StatusMapping(ep) ==
    IF ep.status = 204 THEN [response |-> NilResponse, err |-> "nil"]
    ELSE IF ep.status # 200 THEN ErrReturn("status")
    ELSE IF ep.body # "json" THEN ErrReturn("decode")
    ELSE [response |-> [state |-> "resp", seatbid |-> CallSeatBid], err |-> "nil"]

DoAndMap(ep) == IF ep.kind # "reply" THEN ErrReturn(DoError(ep)) ELSE StatusMapping(ep)

\* Bidder.SendBidRequest: no header beyond the two common ones
BidderSendBidRequest(ep) ==
    [sent |-> TRUE, headers |-> BaseHeaders, ret |-> DoAndMap(ep)]

\* SSP.sendOpenRTBRequest: Authorization: Bearer <key> when a key is set
sendOpenRTBRequest(p, ep) ==
    [sent |-> TRUE,
     headers |-> BaseHeaders \cup
                 (IF p.APIKey # "" THEN {<<"Authorization", "Bearer " \o p.APIKey>>}
                  ELSE {}),
     ret |-> DoAndMap(ep)]

\* EXADSClient.SendBidRequest: X-EXADS-API-Key when the client has a key
EXADSSendBidRequest(ec, ep) ==
    [sent |-> TRUE,
     headers |-> BaseHeaders \cup
                 (IF ec.apiKey # "" THEN {<<"X-EXADS-API-Key", ec.apiKey>>} ELSE {}),
     ret |-> DoAndMap(ep)]

\* BidsCubePartner.SendBidRequest: X-API-Key always set; the decoded response
\* goes through applyRevShare
BidsCubeSendBidRequest(apiKey, ep) ==
    LET r == DoAndMap(ep)
    IN [sent |-> TRUE,
        headers |-> BaseHeaders \cup {<<"X-API-Key", apiKey>>},
        ret |-> IF r.err = "nil" /\ r.response.state = "resp"
                THEN [r EXCEPT !.response.seatbid = applyRevShare(@)]
                ELSE r]

\* PartnerManager.SendToPartner: the client the "exads" case uses
SendToPartnerClient(ec, p) == IF ec.isNil THEN NewEXADSClient(p.APIKey) ELSE ec

\* PartnerManager.SendToPartner: the switch on partner.Type
SendToPartner(ec, p, ep) ==
    IF p.Type = "exads" THEN EXADSSendBidRequest(SendToPartnerClient(ec, p), ep)
    ELSE IF p.Type = "openrtb"
    THEN [sent |-> TRUE,
          headers |-> BaseHeaders \cup
                      (IF p.APIKey # ""
                       THEN {<<"Authorization", "Bearer " \o p.APIKey>>} ELSE {}),
          ret |-> DoAndMap(ep)]
    ELSE [sent |-> FALSE, headers |-> {}, ret |-> ErrReturn("unsupported")]

\* processRequest task: the switch on p.Type
ProcessRequestSend(p, ep) ==
    IF p.Type = "adnexus" THEN BidsCubeSendBidRequest(p.APIKey, ep)
    ELSE sendOpenRTBRequest(p, ep)

\* what the caller does with (response, err): handleAdRequest and the
\* collecting loop of processRequest log and skip on err != nil, keep a
\* non-nil response, drop a nil one
HandlerBranch(ret) ==
    IF ret.err # "nil" THEN "failed"
    ELSE IF ret.response.state = "resp" THEN "kept"
    ELSE "dropped"

\* the call variables while no call is being made
CallIdle ==
    /\ dispatch = "none"
    /\ partner = [Type |-> "", APIKey |-> ""]
    /\ exadsClient = NilEXADSClient
    /\ endpoint = NoEndpoint
    /\ reqSent = FALSE
    /\ reqHeaders = {}
    /\ callRet = NoReturn
    /\ cpc = "idle"

\* ------------------------------------------------------------------------
\* Supply chain: nodes, chains, constructors, validation, parsing
\* ------------------------------------------------------------------------
\* bound on the number of input nodes
MaxNodes == 2

\* SupplyChainNode
Node(asi, sid, hp, name, domain) ==
    [ASI |-> asi, SID |-> sid, HP |-> hp, Name |-> name, Domain |-> domain]

\* nodes the inputs are drawn from: a direct seller, a reseller, and one
\* node for each way validateNode can fail
InputNodes ==
    {Node("asi.example", "sid-1", 0, "", ""),
     Node("asi.example", "sid-1", 1, "", ""),
     Node("", "sid-1", 0, "", ""),
     Node("asi.example", "", 0, "", ""),
     Node("asi.example", "sid-1", 2, "", "")}

\* *SupplyChain: nil, or Complete, Nodes, Ver
NilChain == [isNil |-> TRUE, Complete |-> 0, Nodes |-> <<>>, Ver |-> ""]
Chain(complete, nodes, ver) ==
    [isNil |-> FALSE, Complete |-> complete, Nodes |-> nodes, Ver |-> ver]

\* NewSupplyChainBuilder(asi, sid, name, domain); the name is fixed here
Builder(asi) == [ourASI |-> asi, ourName |-> "Our SSP"]
\* the publisherDomain argument, fixed here
PublisherDomain == "publisher.example"

\* builder identifiers and publisher IDs the inputs are drawn from
BuilderASIs == {"", "ssp.example"}
PublisherIDInputs == {"", "pub-123"}
VerInputs == {"", "1.0"}

\* (chain, err) of a constructor or parse; err "nil" is no error
NoSchainOut == [chain |-> NilChain, err |-> "unset"]

\* SupplyChainBuilder.BuildForPublisher
BuildForPublisher(b, pubID, pubDomain) ==
    IF pubID = "" THEN [chain |-> NilChain, err |-> "publisher ID is required"]
    ELSE [chain |-> Chain(1, <<Node(b.ourASI, pubID, 0, b.ourName, pubDomain)>>, "1.0"),
          err |-> "nil"]

\* SupplyChainBuilder.BuildForIntermediary: our node first instead of last
BuildForIntermediaryPrepend(b, pubID, pubDomain, intermediaries) ==
    IF pubID = "" THEN [chain |-> NilChain, err |-> "publisher ID is required"]
    ELSE [chain |-> Chain(1,
                          <<Node(b.ourASI, pubID, 0, b.ourName, pubDomain)>>
                              \o intermediaries,
                          "1.0"),
          err |-> "nil"]
\* SupplyChainBuilder.BuildForIntermediary
BuildForIntermediary(b, pubID, pubDomain, intermediaries) ==
    IF pubID = "" THEN [chain |-> NilChain, err |-> "publisher ID is required"]
    ELSE [chain |-> Chain(1,
                          Append(intermediaries,
                                 Node(b.ourASI, pubID, 0, b.ourName, pubDomain)),
                          "1.0"),
          err |-> "nil"]

\* SupplyChainBuilder.BuildIncomplete
BuildIncomplete(b, pubID) ==
    IF pubID = "" THEN [chain |-> NilChain, err |-> "publisher ID is required"]
    ELSE [chain |-> Chain(0, <<Node(b.ourASI, pubID, 0, "", "")>>, "1.0"),
          err |-> "nil"]

\* validateNode without the HP check
validateNodeNoHP(node) ==
    IF node.ASI = "" THEN "ASI is required"
    ELSE IF node.SID = "" THEN "SID is required"
    ELSE "nil"
\* validateNode
validateNode(node) ==
    IF node.ASI = "" THEN "ASI is required"
    ELSE IF node.SID = "" THEN "SID is required"
    ELSE IF node.HP # 0 /\ node.HP # 1 THEN "HP must be 0 or 1"
    ELSE "nil"

\* for i, node := range schain.Nodes: the first node error, from index i
RECURSIVE ValidateNodes(_, _)
ValidateNodes(nodes, i) ==
    IF i > Len(nodes) THEN "nil"
    ELSE IF validateNode(nodes[i]) # "nil" THEN validateNode(nodes[i])
    ELSE ValidateNodes(nodes, i + 1)

\* ValidateSupplyChain
ValidateSupplyChain(schain) ==
    IF schain.isNil THEN "supply chain is nil"
    ELSE IF Len(schain.Nodes) = 0 THEN "supply chain must have at least one node"
    ELSE IF schain.Ver = "" THEN "supply chain version is required"
    ELSE ValidateNodes(schain.Nodes, 1)

\* A JSON text, by what json.Unmarshal makes of it: not JSON ("malformed"),
\* the value null, a string, or an object with the keys it holds
JsonShapes == {"malformed", "null", "string", "object", "object_no_nodes"}
\* json.Marshal of a SupplyChainNode: asi and sid always, hp, name and
\* domain only when not the zero value (omitempty); rid is never set here
EncodeNode(n) ==
    [keys |-> {"asi", "sid"}
                 \cup (IF n.HP # 0 THEN {"hp"} ELSE {})
                 \cup (IF n.Name # "" THEN {"name"} ELSE {})
                 \cup (IF n.Domain # "" THEN {"domain"} ELSE {}),
     asi |-> n.ASI, sid |-> n.SID, hp |-> n.HP, name |-> n.Name,
     domain |-> n.Domain]

\* the JSON text of each shape; the node objects of an "object" text are
\* as json.Marshal writes them
JsonValue(shape, nodes, ver) ==
    IF shape = "object"
    THEN [kind |-> "object", keys |-> {"complete", "nodes", "ver"},
          complete |-> 1,
          nodes |-> [i \in 1..Len(nodes) |-> EncodeNode(nodes[i])],
          ver |-> ver]
    ELSE IF shape = "object_no_nodes"
    THEN [kind |-> "object", keys |-> {"complete", "ver"},
          complete |-> 1, nodes |-> <<>>, ver |-> ver]
    ELSE [kind |-> shape, keys |-> {}, complete |-> 0, nodes |-> <<>>, ver |-> ""]

\* json.Unmarshal of a node object into SupplyChainNode, field by field
\* a key that is not in the object leaves the field at its zero value
DecodeNode(o) ==
    Node(IF "asi" \in o.keys THEN o.asi ELSE "",
         IF "sid" \in o.keys THEN o.sid ELSE "",
         IF "hp" \in o.keys THEN o.hp ELSE 0,
         IF "name" \in o.keys THEN o.name ELSE "",
         IF "domain" \in o.keys THEN o.domain ELSE "")

\* SupplyChain.ToJSON: json.Marshal(s); a nil *SupplyChain marshals to the
\* text null, every field of the struct is written (none is omitempty)
ToJSON(s) ==
    IF s.isNil
    THEN [kind |-> "null", keys |-> {}, complete |-> 0, nodes |-> <<>>, ver |-> ""]
    ELSE [kind |-> "object", keys |-> {"complete", "nodes", "ver"},
          complete |-> s.Complete,
          nodes |-> [i \in 1..Len(s.Nodes) |-> EncodeNode(s.Nodes[i])],
          ver |-> s.Ver]

\* FromJSON: json.Unmarshal into a zero SupplyChain; an error for a text
\* that is not JSON or not an object, a field left zero for a key not there
FromJSON(data) ==
    IF data.kind = "malformed" THEN [chain |-> NilChain, err |-> "syntax error"]
    ELSE IF data.kind = "string" THEN [chain |-> NilChain, err |-> "type error"]
    ELSE IF data.kind = "null" THEN [chain |-> Chain(0, <<>>, ""), err |-> "nil"]
    ELSE [chain |->
              Chain(IF "complete" \in data.keys THEN data.complete ELSE 0,
                    IF "nodes" \in data.keys
                    THEN [i \in 1..Len(data.nodes) |-> DecodeNode(data.nodes[i])]
                    ELSE <<>>,
                    IF "ver" \in data.keys THEN data.ver ELSE ""),
          err |-> "nil"]

\* what ExtractFromSource is handed: a nil Source, a nil Source.Ext, or an
\* Ext holding JSON text as string, []byte or json.RawMessage, or a decoded
\* map; the text is an object with a schain key, one without, or not JSON
\* (others: the keys of the object besides schain)
ExtShapes ==
    {[holder |-> "nil_source", content |-> "none", others |-> {}],
     [holder |-> "nil_ext", content |-> "none", others |-> {}],
     [holder |-> "map", content |-> "schain", others |-> {"omidpn"}],
     [holder |-> "string", content |-> "schain", others |-> {"omidpn"}],
     [holder |-> "bytes", content |-> "schain", others |-> {"omidpn"}],
     [holder |-> "raw", content |-> "schain", others |-> {"omidpn"}],
     [holder |-> "string", content |-> "other", others |-> {"omidpn"}],
     [holder |-> "raw", content |-> "other", others |-> {"omidpn"}],
     [holder |-> "raw", content |-> "malformed", others |-> {}]}

\* ExtractFromSource, the schain value of the text being data
ExtractFromSource(ext, data) ==
    IF ext.holder \in {"nil_source", "nil_ext"}
    THEN [chain |-> NilChain, err |-> "no supply chain in source"]
    ELSE IF ext.holder = "map"
    THEN [chain |-> NilChain, err |-> "unsupported ext type"]
    ELSE IF ext.content = "malformed" \/ data.kind = "malformed"
    THEN [chain |-> NilChain, err |-> "syntax error"]
    ELSE IF ext.content = "other"
    THEN [chain |-> NilChain, err |-> "no schain in source.ext"]
    ELSE FromJSON(data)

\* *Source as AddToSource and ExtractFromSource see it: what Source.Ext
\* holds, the value under its schain key, and the AddToSource calls made on it
SourceOf(ext, schainValue, n) == [ext |-> ext, schain |-> schainValue, adds |-> n]

\* the value under the schain key of an input Source.Ext that has one
OldSchain == ToJSON(Chain(0, <<Node("old.example", "old-1", 0, "", "")>>, "1.0"))

\* AddToSource calls made on one Source
MaxAdds == 2

\* the keys besides schain that Source.Ext holds
OtherKeys(src) ==
    IF src.ext.content \in {"schain", "other"} THEN src.ext.others ELSE {}

\* AddToSource: validates, then rebuilds Source.Ext from the keys it could
\* read out of the old one. extMap is filled only when Source.Ext is a
\* string or a []byte (the two type assertions of lines 199 and 201); a
\* json.RawMessage or a decoded map matches neither, and an Unmarshal error
\* is dropped, so extMap stays empty
AddToSource(src, schain) ==
    IF src.ext.holder = "nil_source" THEN [source |-> src, err |-> "source is nil"]
    ELSE IF schain.isNil THEN [source |-> src, err |-> "supply chain is nil"]
    ELSE IF ValidateSupplyChain(schain) # "nil"
    THEN [source |-> src, err |-> "invalid supply chain"]
    ELSE LET extMap == IF /\ src.ext.holder \in {"string", "bytes"}
                          /\ src.ext.content \in {"schain", "other"}
                       THEN src.ext.others
                       ELSE {}
         IN [source |-> SourceOf([holder |-> "raw", content |-> "schain",
                                  others |-> extMap],
                                 ToJSON(schain), src.adds),
             err |-> "nil"]

\* the supply chain variables while no supply chain function is exercised
SchainIdle ==
    /\ ourASI = ""
    /\ publisherID = ""
    /\ nodesIn = <<>>
    /\ verIn = ""
    /\ jsonIn = "none"
    /\ extIn = [holder |-> "none", content |-> "none", others |-> {}]
    /\ source = SourceOf([holder |-> "none", content |-> "none", others |-> {}],
                         OldSchain, 0)
    /\ schainOp = "idle"
    /\ schainOut = NoSchainOut

\* ------------------------------------------------------------------------
\* BidRequestBuilder.BuildBidRequest
\* ------------------------------------------------------------------------
\* Placement.AdType values: the four the OpenRTB impression has an object
\* for, and one it has none for
AdTypes == {"banner", "video", "audio", "native", "popunder"}
\* Placement.MinBidFloor values
BuildFloors == {0, 100}
\* UUIDs drawn before the call
UuidSeeds == {0, 7}

PlacementID == "pl-1"
NoPlacement ==
    [ID |-> "", AdType |-> "", MinBidFloor |-> 0, Width |-> 0, Height |-> 0,
     Formats |-> <<>>, Video |-> [isNil |-> TRUE]]
\* a placement of a given ad type and floor: with or without a size, with
\* or without a list of formats, with or without video settings
PlacementOf(adType, fl, sized, multi, settings) ==
    [ID |-> PlacementID, AdType |-> adType, MinBidFloor |-> fl,
     Width |-> IF sized THEN 300 ELSE 0,
     Height |-> IF sized THEN 250 ELSE 0,
     Formats |-> IF multi THEN <<[W |-> 728, H |-> 90]>> ELSE <<>>,
     Video |-> IF settings
               THEN [isNil |-> FALSE, MinDuration |-> 15, MaxDuration |-> 60]
               ELSE [isNil |-> TRUE]]

\* a nil *Banner, *Video, *Audio, *Native
NilObject == [isNil |-> TRUE]

\* uuid.New(): the n-th UUID of the process, different from every other
NewUUID(n) == n

\* BidRequestBuilder.buildBanner
buildBanner(pl) ==
    IF Len(pl.Formats) > 0
    THEN [isNil |-> FALSE, ID |-> pl.ID, Pos |-> 1, W |-> 0, H |-> 0,
          Format |-> pl.Formats]
    ELSE IF pl.Width > 0 /\ pl.Height > 0
    THEN [isNil |-> FALSE, ID |-> pl.ID, Pos |-> 1, W |-> pl.Width,
          H |-> pl.Height, Format |-> <<[W |-> pl.Width, H |-> pl.Height]>>]
    ELSE [isNil |-> FALSE, ID |-> pl.ID, Pos |-> 1, W |-> 0, H |-> 0,
          Format |-> <<>>]

\* BidRequestBuilder.buildVideo
buildVideo(pl) ==
    [isNil |-> FALSE, W |-> pl.Width, H |-> pl.Height, Pos |-> 1,
     MinDuration |-> IF pl.Video.isNil THEN 5 ELSE pl.Video.MinDuration,
     MaxDuration |-> IF pl.Video.isNil THEN 30 ELSE pl.Video.MaxDuration]

\* a nil *BidRequest
NilBidRequest == [isNil |-> TRUE]

\* BuildBidRequest, seed UUIDs having been drawn before: the request ID and
\* the impression ID are drawn first, the switch on placement.AdType sets
\* one impression object or returns the error, Source is {FD: 1, TID: a
\* third UUID} with Ext left nil
BuildBidRequest(pl, seed) ==
    LET imp == [ID |-> NewUUID(seed + 2), TagID |-> pl.ID,
                BidFloor |-> pl.MinBidFloor, BidFloorCur |-> "USD",
                Secure |-> 1, Banner |-> NilObject, Video |-> NilObject,
                Audio |-> NilObject, Native |-> NilObject]
        typed == IF pl.AdType = "banner"
                 THEN [imp EXCEPT !.Banner = buildBanner(pl)]
                 ELSE IF pl.AdType = "video"
                 THEN [imp EXCEPT !.Video = buildVideo(pl)]
                 ELSE [imp EXCEPT !.Native = [isNil |-> FALSE, Ver |-> "1.2"]]
    IN IF pl.AdType \notin {"banner", "video", "native"}
       THEN [req |-> NilBidRequest, err |-> "unsupported ad type",
             seed |-> seed + 2]
       ELSE [req |-> [isNil |-> FALSE, ID |-> NewUUID(seed + 1),
                      Imp |-> <<typed>>, At |-> 2, Tmax |-> 120,
                      Source |-> [FD |-> 1, TID |-> NewUUID(seed + 3),
                                  Ext |-> [holder |-> "nil_ext",
                                           content |-> "none", others |-> {}]]],
             err |-> "nil", seed |-> seed + 3]

\* the builder variables while no bid request is built
BuildIdle ==
    /\ placement = NoPlacement
    /\ uuidSeed = 0
    /\ bidReq = NilBidRequest
    /\ buildErr = "unset"
    /\ bpc = "idle"

\* ------------------------------------------------------------------------
\* sellers.json: SellersJSONGenerator.GenerateFromPublishers
\* ------------------------------------------------------------------------
\* publishers in one input list
MaxPublishers == 3

\* Publisher: ID, Domain, Active (the fields the generator reads besides Name)
PublisherInputs ==
    [ID : {"pub-1", "pub-2"}, Domain : {"", "pub.example"}, Active : BOOLEAN]

\* the Seller built for one active publisher, every entry public
SellerOfPublic(pub) ==
    [SellerID |-> pub.ID, Domain |-> pub.Domain, SellerType |-> "PUBLISHER",
     IsConfidential |-> 0]
\* the Seller built for one active publisher: confidential without a domain
SellerOf(pub) ==
    [SellerID |-> pub.ID, Domain |-> pub.Domain, SellerType |-> "PUBLISHER",
     IsConfidential |-> IF pub.Domain = "" THEN 1 ELSE 0]

\* for _, pub := range publishers: inactive skipped, the rest appended
RECURSIVE SellersFrom(_)
SellersFrom(pubs) ==
    IF pubs = <<>> THEN <<>>
    ELSE (IF ~Head(pubs).Active THEN <<>> ELSE <<SellerOf(Head(pubs))>>)
         \o SellersFrom(Tail(pubs))

NoSellersJSON == [isNil |-> TRUE, Version |-> "", Sellers |-> <<>>]

\* GenerateFromPublishers; the error returned is always nil
GenerateFromPublishers(pubs) ==
    [isNil |-> FALSE, Version |-> "1.0", Sellers |-> SellersFrom(pubs)]

\* the generator variables while no document is generated
SellersIdle ==
    /\ publishers = <<>>
    /\ sellersOut = NoSellersJSON
    /\ spc = "idle"

\* ------------------------------------------------------------------------
\* sellers.json: SellersJSONCache
\* ------------------------------------------------------------------------
\* the clock runs from StartTime to MaxTime
StartTime == 1
MaxTime == 4
\* NewSellersJSONCache(ttl)
TTLs == {0, 2}
\* the []byte handed to Set: nil, empty but not nil, a document
CacheDatas == {"nil", "empty", "doc-1"}

NoCacheRet == [op |-> "none", data |-> "nil", ok |-> FALSE]

\* time.Since(c.updatedAt) >= c.ttl
ExpiredAtTTL(t, updatedAt, ttl) == t - updatedAt >= ttl
\* time.Since(c.updatedAt) > c.ttl
Expired(t, updatedAt, ttl) == t - updatedAt > ttl

\* SellersJSONCache.Get
CacheGet(data, updatedAt, ttl, t) ==
    IF data = "nil" THEN [op |-> "Get", data |-> "nil", ok |-> FALSE]
    ELSE IF Expired(t, updatedAt, ttl)
    THEN [op |-> "Get", data |-> "nil", ok |-> FALSE]
    ELSE [op |-> "Get", data |-> data, ok |-> TRUE]

\* SellersJSONCache.IsExpired (ok holds the boolean returned)
CacheIsExpired(data, updatedAt, ttl, t) ==
    IF data = "nil" THEN [op |-> "IsExpired", data |-> "nil", ok |-> TRUE]
    ELSE [op |-> "IsExpired", data |-> "nil", ok |-> Expired(t, updatedAt, ttl)]

\* the cache variables while no cache is exercised
CacheIdle ==
    /\ cacheData = "nil"
    /\ cacheUpdatedAt = 0
    /\ cacheTTL = 0
    /\ now = 0
    /\ sinceClear = "none"
    /\ sinceSet = 0
    /\ cacheRet = NoCacheRet

\* ------------------------------------------------------------------------
\* Tracking endpoints and the telemetry sink
\* ------------------------------------------------------------------------
\* requests one run of the service takes
MaxRequests == 3
\* the bid ids the tracking URLs carry
BidIDs == {"bid-1", "bid-2"}
\* length of the GIF handleImpressionTracking writes
GifBytes == 43
\* cleared price of an auction that was won, and the publisher's share of
\* it (result.ClearedPrice * publisher.RevShare, RevShare 0.7)
TrackClearedPrice == 100
TrackPublisherShare == (TrackClearedPrice * 7) \div 10

\* main: analyticsStore stays nil when ClickHouse is disabled or
\* NewAnalyticsStore returns an error
AnalyticsStoreOf(cfg) == IF cfg = "connected" THEN "up" ELSE "nil"

NoRequest == [kind |-> "none", bid |-> ""]

\* the tracking variables while no tracking is modelled
TrackIdle ==
    /\ sinkConfig = "none"
    /\ analyticsStore = "nil"
    /\ processUp = FALSE
    /\ handling = NoRequest
    /\ goroutines = <<>>
    /\ impressionLog = <<>>
    /\ dropped = 0
    /\ hits = [b \in BidIDs |-> 0]
    /\ answers = <<>>
    /\ publisherRevenue = 0
    /\ auctionTotal = 0
    /\ impressionsTotal = 0

\* ------------------------------------------------------------------------
\* PublicaHandler: HandleSSAI and HandleVAST over processRequest
\* ------------------------------------------------------------------------
\* params.size is absent, a JSON number, or a string, written here as the
\* sequence of its characters over the alphabet SizeChars
MaxSizeLen == 3
SizeChars == {"1", "2", "x", "a"}
SizeStrings == UNION {[1..n -> SizeChars] : n \in 0..MaxSizeLen}
SizeParams ==
    {[kind |-> "absent", str |-> <<>>], [kind |-> "number", str |-> <<>>]}
    \cup {[kind |-> "string", str |-> s] : s \in SizeStrings}

\* strings.Split(size, "x")
RECURSIVE SplitFrom(_, _)
SplitFrom(s, cur) ==
    IF Len(s) = 0 THEN <<cur>>
    ELSE IF Head(s) = "x" THEN <<cur>> \o SplitFrom(Tail(s), <<>>)
    ELSE SplitFrom(Tail(s), Append(cur, Head(s)))

Split(s) == SplitFrom(s, <<>>)

DigitValue(c) == IF c = "1" THEN 1 ELSE 2

RECURSIVE DecimalValue(_, _)
DecimalValue(s, acc) ==
    IF Len(s) = 0 THEN acc
    ELSE DecimalValue(Tail(s), 10 * acc + DigitValue(Head(s)))

\* strconv.ParseInt(s, 10, 64): (0, err) on the empty string and on any
\* character that is not a digit
ParseInt(s) ==
    IF Len(s) > 0 /\ \A i \in 1..Len(s) : s[i] \in {"1", "2"}
    THEN [val |-> DecimalValue(s, 0), err |-> FALSE]
    ELSE [val |-> 0, err |-> TRUE]

DefaultVideoSize == [W |-> 1920, H |-> 1080]

\* var width, height int64 = 1920, 1080
\* if size, ok := req.Params["size"].(string); ok { ... width, _ = ParseInt }
VideoSize(size) ==
    IF size.kind = "string"
    THEN LET parts == Split(size.str)
         IN IF Len(parts) = 2
            THEN [W |-> ParseInt(parts[1]).val, H |-> ParseInt(parts[2]).val]
            ELSE DefaultVideoSize
    ELSE DefaultVideoSize

PubDealIDs == {"", "deal-1"}
PubFloors == {0, 500}

NoPubBidRequest == [W |-> 0, H |-> 0, BidFloor |-> 0, Deals |-> <<>>]

\* Imp[0] of the request HandleSSAI sends; Deals is empty when PMP is nil
convertToOpenRTB(req) ==
    [W |-> VideoSize(req.size).W,
     H |-> VideoSize(req.size).H,
     BidFloor |-> req.floor,
     Deals |-> IF req.dealID # ""
               THEN <<[ID |-> req.dealID, BidFloor |-> req.floor]>>
               ELSE <<>>]

\* Imp[0] of the request HandleVAST sends
VastBidRequest(req) ==
    [W |-> 1920,
     H |-> 1080,
     BidFloor |-> IF req.floor = 0 THEN 500 ELSE req.floor,
     Deals |-> IF req.dealID # ""
               THEN <<[ID |-> req.dealID, BidFloor |-> 0]>>
               ELSE <<>>]

PubBid(id, price, dealid) == [id |-> id, price |-> price, dealid |-> dealid]

\* what a partner's transport returns: an error, (nil, nil), or a response
PubRepliesOf(p) ==
    {[err |-> TRUE, response |-> NilResponse],
     [err |-> FALSE, response |-> NilResponse]}
    \cup {[err |-> FALSE, response |-> [state |-> "resp", seatbid |-> sbs]] :
            sbs \in {<<>>,
                     <<<<PubBid(p \o "1", 600, "deal-1")>>>>,
                     <<<<PubBid(p \o "2", 800, "")>>>>,
                     <<<<PubBid(p \o "3", 400, "deal-1"),
                         PubBid(p \o "4", 800, "deal-2")>>>>,
                     <<<<>>, <<PubBid(p \o "5", 600, "deal-1")>>>>,
                     <<<<PubBid(p \o "6", 900, "deal-1")>>,
                       <<PubBid(p \o "7", 400, "deal-1")>>>>,
                     <<<<PubBid(p \o "8", 0, "")>>>>}}

\* for result := range resultCh { ... }, the results arriving in order
RECURSIVE CollectAll(_, _, _)
CollectAll(replies, order, brs) ==
    IF order = <<>> THEN brs
    ELSE CollectAll(replies, Tail(order),
             KeepResult(brs, [partner |-> Head(order),
                              response |-> replies[Head(order)].response,
                              err |-> replies[Head(order)].err]))

\* (winningResponse, err) of processRequest with every partner active
processRequest(replies, order) ==
    LET brs == CollectAll(replies, order, <<>>)
    IN IF Len(brs) = 0
       THEN [response |-> NilWinning, err |-> "no valid bid responses received"]
       ELSE LET w == selectWinner(brs)
            IN IF w.isNil THEN [response |-> NilWinning, err |-> "no winning bid"]
               ELSE [response |-> w, err |-> "nil"]

AdOf(bid) == [ID |-> bid.id, CPM |-> bid.price]

\* for _, seatBid := range resp.SeatBid { for _, bid := range seatBid.Bid {
\*     publicaResp.Ads = append(publicaResp.Ads, ad) } }
RECURSIVE AdsOf(_)
AdsOf(sbs) ==
    IF sbs = <<>> THEN <<>>
    ELSE [b \in 1..Len(Head(sbs)) |-> AdOf(Head(sbs)[b])] \o AdsOf(Tail(sbs))

NoPubAnswer == [status |-> 0, body |-> "none", ads |-> <<>>]

\* HandleSSAI after the request was bound: 204 on an error of
\* processRequest, the converted response otherwise
HandleSSAI(ret) ==
    IF ret.err # "nil"
    THEN [status |-> 204, body |-> "no ads", ads |-> <<>>]
    ELSE [status |-> 200, body |-> "ssai", ads |-> AdsOf(ret.response.seatbid)]

\* HandleVAST: generateVAST(bidResponse.SeatBid[0].Bid[0], contentID); the
\* index out of range panics, and gin's Recovery middleware answers 500
HandleVAST(ret) ==
    IF ret.err # "nil" \/ Len(ret.response.seatbid) = 0
    THEN [status |-> 200, body |-> "emptyVAST", ads |-> <<>>]
    ELSE IF Len(ret.response.seatbid[1]) = 0
    THEN [status |-> 500, body |-> "panic", ads |-> <<>>]
    ELSE [status |-> 200, body |-> "vast",
          ads |-> <<AdOf(ret.response.seatbid[1][1])>>]

\* ------------------------------------------------------------------------
\* The ad endpoints: handleAdRequest and handleVASTRequest
\* ------------------------------------------------------------------------
\* what a catalog lookup does: the row, sql.ErrNoRows, another error
Lookups == {"found", "missing", "outage"}

\* Bid.NURL: empty, or a URL holding the ${AUCTION_PRICE} macro
NoNurl == [prefix |-> "", macro |-> FALSE]
MacroNurl(p) == [prefix |-> "https://" \o p \o ".example/win?p=", macro |-> TRUE]

AdBid(id, price, nurl) == [id |-> id, price |-> price, nurl |-> nurl]

\* (resp, err) of Bidder.SendBidRequest for partner p
AdRepliesOf(p) ==
    {[err |-> TRUE, response |-> NilResponse],
     [err |-> FALSE, response |-> NilResponse],
     [err |-> FALSE,
      response |-> [state |-> "resp",
                    seatbid |-> <<<<AdBid(PartnerRank(p) * 10 + 1, 200, NoNurl)>>>>]],
     [err |-> FALSE,
      response |-> [state |-> "resp",
                    seatbid |-> <<<<AdBid(PartnerRank(p) * 10 + 2, 300, MacroNurl(p)),
                                    AdBid(PartnerRank(p) * 10 + 3, 50, NoNurl)>>>>]]}

\* if err != nil { continue }; if resp != nil { responses[dp] = resp }
AdResponses(replies) ==
    [p \in PartnerIDs |->
        IF replies[p].err \/ replies[p].response.state = "nil"
        THEN AbsentResponse ELSE replies[p].response]

NoAdAnswer == [status |-> 0, bidID |-> 0, price |-> 0]
AdStatus(code) == [status |-> code, bidID |-> 0, price |-> 0]

\* the handler left before the partner loop
AdEarly(code) ==
    [answer |-> AdStatus(code), result |-> NilResult, contacted |-> {},
     auctions |-> 0, notices |-> <<>>]

\* handleAdRequest: 400 without placement_id; 204 on any error of the three
\* lookups and of BuildBidRequest; then every active partner is called,
\* RunAuction runs, and the answer is 204 without a result and 200 with
\* the winning bid's id and the cleared price. No notice is sent.
handleAdRequest(req, order, perIter) ==
    IF req.placementID = "" THEN AdEarly(400)
    ELSE IF req.lookup.placement # "found" THEN AdEarly(204)
    ELSE IF req.lookup.site # "found" THEN AdEarly(204)
    ELSE IF req.lookup.publisher # "found" THEN AdEarly(204)
    ELSE IF BuildBidRequest(req.placement, 0).err # "nil" THEN AdEarly(204)
    ELSE LET res == RunAuction(AdResponses(req.replies), order,
                               req.placement.MinBidFloor, perIter)
         IN [answer |-> IF res.isNil THEN AdStatus(204)
                        ELSE [status |-> 200, bidID |-> res.WinningBid.id,
                              price |-> res.ClearedPrice],
             result |-> res,
             contacted |-> PartnerIDs,
             auctions |-> 1,
             notices |-> <<>>]

\* handleVASTRequest: 404 on any error of GetPlacement, else an empty VAST
\* document; no partner is called and no auction runs
handleVASTRequest(req) ==
    IF req.lookup.placement # "found" THEN AdEarly(404) ELSE AdEarly(200)

\* the ad endpoint variables while no ad endpoint is modelled
AdIdle ==
    /\ adReq = [endpoint |-> "none", placementID |-> "",
                lookup |-> [placement |-> "missing", site |-> "missing",
                            publisher |-> "missing"],
                placement |-> NoPlacement,
                replies |-> [p \in PartnerIDs |->
                                [err |-> TRUE, response |-> NilResponse]]]
    /\ adResult = NilResult
    /\ adAnswer = NoAdAnswer
    /\ adContacted = {}
    /\ adAuctions = 0
    /\ winNotices = <<>>
    /\ apc = "idle"

\* ------------------------------------------------------------------------
\* One BidRequest shared by a whitelabel task and a direct task
\* ------------------------------------------------------------------------
\* a nil *openrtb2.Source, and the Source objects a caller may pass: FD is a
\* *int8 ("nil" when unset), TID a string
NilSource == [isNil |-> TRUE, FD |-> "nil", TID |-> ""]
SourceInputs ==
    {NilSource}
    \cup {[isNil |-> FALSE, FD |-> fd, TID |-> tid] :
            fd \in {"nil", "0"}, tid \in {"", "tid-0"}}

\* BidRequest.Ext: nil or a JSON document
ExtInputs == {"nil", "{}", "{\"pub\":1}"}

\* json.Marshal(extData)
WhitelabelExt == "{\"integration\":\"adnexus-wl\",\"ssp\":\"adnexus-ssp\",\"version\":\"1.0.0\"}"

\* uuid.New().String() in the whitelabel task
XformUUIDs == {"uuid-1", "uuid-2"}

\* transformed := *req: the copy shares the caller's Source unless that is
\* nil, in which case it gets a Source of its own
NoTransformed == [sourceRef |-> "none", own |-> NilSource, Ext |-> "nil"]
CloneRequest(req) ==
    [sourceRef |-> IF req.Source.isNil THEN "own" ELSE "shared",
     own |-> IF req.Source.isNil
             THEN [isNil |-> FALSE, FD |-> "nil", TID |-> ""]
             ELSE NilSource,
     Ext |-> req.Ext]

\* the Source the copy's pointer leads to
TransformedSource(t, req) == IF t.sourceRef = "shared" THEN req.Source ELSE t.own

NoBody == [sent |-> FALSE, Source |-> NilSource, Ext |-> "nil"]

\* the transform variables while no transform is modelled
XformIdle ==
    /\ xOrig = [Source |-> NilSource, Ext |-> "nil"]
    /\ xReq = [Source |-> NilSource, Ext |-> "nil"]
    /\ xTransformed = NoTransformed
    /\ xSent = [p \in PartnerIDs |-> NoBody]
    /\ xpc = [p \in PartnerIDs |-> "idle"]

\* ------------------------------------------------------------------------
\* PartnerManager: AddPartner and SendToPartner
\* ------------------------------------------------------------------------
\* the SupplyPartner values a caller holds: two exads partners, an openrtb
\* partner and one of another Type
ManagerPartners ==
    [x1 |-> [Type |-> "exads", Endpoint |-> "https://x1.example/rtb",
             APIKey |-> "key-x1", Timeout |-> 100],
     x2 |-> [Type |-> "exads", Endpoint |-> "https://x2.example/rtb",
             APIKey |-> "key-x2", Timeout |-> 200],
     o1 |-> [Type |-> "openrtb", Endpoint |-> "https://o1.example/rtb",
             APIKey |-> "key-o1", Timeout |-> 150],
     c1 |-> [Type |-> "custom", Endpoint |-> "https://c1.example/rtb",
             APIKey |-> "", Timeout |-> 150]]

ManagerPartnerIDs == DOMAIN ManagerPartners

\* NewEXADSClient(partner.Endpoint, partner.APIKey, partner.Timeout)
NilManagerClient == [isNil |-> TRUE, endpoint |-> "", apiKey |-> "", timeout |-> 0]
NewEXADSClientFor(p) ==
    [isNil |-> FALSE, endpoint |-> p.Endpoint, apiKey |-> p.APIKey,
     timeout |-> p.Timeout]

\* if pm.exadsClient == nil { pm.exadsClient = NewEXADSClient(...) }
EnsureEXADSClient(ec, p) ==
    IF p.Type = "exads" /\ ec.isNil THEN NewEXADSClientFor(p) ELSE ec

NoDelivery ==
    [partner |-> "", sent |-> FALSE, url |-> "", keyHeader |-> <<>>, timeout |-> 0]

\* the request SendToPartner issues for partner id: through pm.exadsClient
\* for Type exads, through a client of its own for Type openrtb, none for
\* any other Type
DeliveryOf(ec, id) ==
    LET p == ManagerPartners[id]
        c == EnsureEXADSClient(ec, p)
    IN IF p.Type = "exads"
       THEN [partner |-> id, sent |-> TRUE, url |-> c.endpoint,
             keyHeader |-> IF c.apiKey # ""
                           THEN <<"X-EXADS-API-Key", c.apiKey>> ELSE <<>>,
             timeout |-> c.timeout]
       ELSE IF p.Type = "openrtb"
       THEN [partner |-> id, sent |-> TRUE, url |-> p.Endpoint,
             keyHeader |-> IF p.APIKey # ""
                           THEN <<"Authorization", "Bearer " \o p.APIKey>>
                           ELSE <<>>,
             timeout |-> p.Timeout]
       ELSE [partner |-> id, sent |-> FALSE, url |-> "", keyHeader |-> <<>>,
             timeout |-> 0]

\* the manager variables while no manager is modelled
MgrIdle ==
    /\ pmPartners = {}
    /\ pmExadsClient = NilManagerClient
    /\ pmDelivery = NoDelivery

\* the Publica variables while no Publica request is modelled
PubIdle ==
    /\ pubReq = [handler |-> "none", dealID |-> "", floor |-> 0,
                 size |-> [kind |-> "absent", str |-> <<>>]]
    /\ pubReplies = [p \in PartnerIDs |-> [err |-> TRUE, response |-> NilResponse]]
    /\ pubBidRequest = NoPubBidRequest
    /\ pubAnswer = NoPubAnswer
    /\ ppc = "idle"

ExtIdle ==
    /\ PubIdle
    /\ AdIdle
    /\ XformIdle
    /\ MgrIdle

AuxIdle ==
    /\ BuildIdle
    /\ SellersIdle
    /\ CacheIdle
    /\ TrackIdle
    /\ ExtIdle

\* resultCh := make(chan partnerResult, len(partners))
ChanCap(ps) == Len(ps)

\* wg.Wait() returns when the counter is zero
WaitDoneEarly(n) == TRUE
WaitDone(n) == n = 0

\* the fan-out variables while no request is being handled
FanIdle ==
    /\ path = "none"
    /\ active = [p \in PartnerIDs |-> FALSE]
    /\ timeout = [p \in PartnerIDs |-> 0]
    /\ reply = [p \in PartnerIDs |-> SilentReply]
    /\ snapshot = <<>>
    /\ tstate = [p \in PartnerIDs |-> "idle"]
    /\ outcome = [p \in PartnerIDs |-> "none"]
    /\ sentAt = [p \in PartnerIDs |-> 0]
    /\ clock = 0
    /\ resultCh = <<>>
    /\ chClosed = FALSE
    /\ wgCount = 0
    /\ bidResponses = <<>>
    /\ winningResponse = NilWinning
    /\ httpStatus = 0
    /\ fpc = "idle"
    /\ nSent = [p \in PartnerIDs |-> 0]
    /\ nDelivered = [p \in PartnerIDs |-> 0]
    /\ disconnected = FALSE

\* ------------------------------------------------------------------------
\* Spec: the caller assembles a responses map, then calls RunAuction
\* ------------------------------------------------------------------------
Init ==
    /\ responses = [p \in PartnerIDs |-> AbsentResponse]
    /\ floor \in Floors
    /\ perIterLoopVar \in BOOLEAN
    /\ result = NilResult
    /\ auctionErr = "unset"
    /\ pc = "build"
    /\ FanIdle
    /\ CallIdle
    /\ SchainIdle
    /\ AuxIdle

\* responses[partner] = nil
PutNilResponse(p) ==
    /\ pc = "build"
    /\ responses[p].state = "absent"
    /\ responses' = [responses EXCEPT ![p] = NilResponse]
    /\ UNCHANGED <<floor, perIterLoopVar, result, auctionErr, pc>>
    /\ UNCHANGED <<fanVars, callVars, schainVars, auxVars>>

\* responses[partner] = &BidResponse{}
PutResponse(p) ==
    /\ pc = "build"
    /\ responses[p].state = "absent"
    /\ responses' = [responses EXCEPT ![p] = EmptyResponse]
    /\ UNCHANGED <<floor, perIterLoopVar, result, auctionErr, pc>>
    /\ UNCHANGED <<fanVars, callVars, schainVars, auxVars>>

\* one more SeatBid in the response of p
AddSeatBid(p) ==
    /\ pc = "build"
    /\ responses[p].state = "resp"
    /\ Len(responses[p].seatbid) < MaxSeatBids
    /\ responses' = [responses EXCEPT ![p].seatbid = Append(@, <<>>)]
    /\ UNCHANGED <<floor, perIterLoopVar, result, auctionErr, pc>>
    /\ UNCHANGED <<fanVars, callVars, schainVars, auxVars>>

\* one more Bid in the last seatbid of p; its ID names its position
AddBid(p, price) ==
    /\ pc = "build"
    /\ responses[p].state = "resp"
    /\ Len(responses[p].seatbid) > 0
    /\ TotalBids(responses) < MaxTotalBids
    /\ LET n == Len(responses[p].seatbid)
           sb == responses[p].seatbid[n]
       IN /\ Len(sb) < MaxBids
          /\ responses' = [responses EXCEPT ![p].seatbid[n] =
                 Append(@, [id |-> 10 * n + Len(sb) + 1, price |-> price])]
    /\ UNCHANGED <<floor, perIterLoopVar, result, auctionErr, pc>>
    /\ UNCHANGED <<fanVars, callVars, schainVars, auxVars>>

\* result, err := engine.RunAuction(responses, placement)
CallRunAuction ==
    /\ pc = "build"
    /\ \E order \in Orders(PresentKeys(responses)) :
           result' = RunAuction(responses, order, floor, perIterLoopVar)
    /\ auctionErr' = "nil"
    /\ pc' = "done"
    /\ UNCHANGED <<responses, floor, perIterLoopVar>>
    /\ UNCHANGED <<fanVars, callVars, schainVars, auxVars>>

Next ==
    \/ \E p \in PartnerIDs : PutNilResponse(p)
    \/ \E p \in PartnerIDs : PutResponse(p)
    \/ \E p \in PartnerIDs : AddSeatBid(p)
    \/ \E p \in PartnerIDs, price \in Prices : AddBid(p, price)
    \/ CallRunAuction

Spec == Init /\ [][Next]_vars

\* ------------------------------------------------------------------------
\* SpecEngine: RunAuction on an engine built with a global minimum floor
\* ------------------------------------------------------------------------
\* auctionEngine := ssp.NewAuctionEngine(0.01): AuctionEngine.minBidFloor,
\* one cent; RunAuction does not read the field
EngineMinBidFloor == 10
\* placement floors under and over the engine's floor, and bid prices
\* under and over both
EngineFloors == {0, 100}
EnginePrices == {5, 100}

InitEngine ==
    /\ responses = [p \in PartnerIDs |-> AbsentResponse]
    /\ floor \in EngineFloors
    /\ perIterLoopVar \in BOOLEAN
    /\ result = NilResult
    /\ auctionErr = "unset"
    /\ pc = "build"
    /\ FanIdle
    /\ CallIdle
    /\ SchainIdle
    /\ AuxIdle

NextEngine ==
    \/ \E p \in PartnerIDs : PutNilResponse(p)
    \/ \E p \in PartnerIDs : PutResponse(p)
    \/ \E p \in PartnerIDs : AddSeatBid(p)
    \/ \E p \in PartnerIDs, price \in EnginePrices : AddBid(p, price)
    \/ CallRunAuction

SpecEngine == InitEngine /\ [][NextEngine]_vars

\* ------------------------------------------------------------------------
\* SpecFanout: one ad request through handleAdRequest or HandleSSAI
\* ------------------------------------------------------------------------
\* Network calls take time; the steps of the handler and of its goroutines
\* take none: the clock moves only when a partner call returns.
InitFanout ==
    /\ responses = [p \in PartnerIDs |-> AbsentResponse]
    /\ floor \in Floors
    /\ perIterLoopVar \in BOOLEAN
    /\ result = NilResult
    /\ auctionErr = "unset"
    /\ pc = "build"
    /\ path \in {"adrequest", "ssai"}
    /\ active \in [PartnerIDs -> BOOLEAN]
    /\ timeout \in [PartnerIDs -> Timeouts]
    /\ reply \in [PartnerIDs -> Replies]
    /\ snapshot = <<>>
    /\ tstate = [p \in PartnerIDs |-> "idle"]
    /\ outcome = [p \in PartnerIDs |-> "none"]
    /\ sentAt = [p \in PartnerIDs |-> 0]
    /\ clock = 0
    /\ resultCh = <<>>
    /\ chClosed = FALSE
    /\ wgCount = 0
    /\ bidResponses = <<>>
    /\ winningResponse = NilWinning
    /\ httpStatus = 0
    /\ fpc = "start"
    /\ nSent = [p \in PartnerIDs |-> 0]
    /\ nDelivered = [p \in PartnerIDs |-> 0]
    /\ disconnected = FALSE
    /\ CallIdle
    /\ SchainIdle
    /\ AuxIdle

\* handleAdRequest: partners := s.partnerManager.GetActivePartners()
AdSnapshot ==
    /\ fpc = "start"
    /\ path = "adrequest"
    /\ \E ps \in GetActivePartners(active) :
           /\ snapshot' = ps
           /\ tstate' = [p \in PartnerIDs |->
                            IF p \in SeqRange(ps) THEN "queued" ELSE "idle"]
    /\ fpc' = "loop"
    /\ UNCHANGED <<nSent, nDelivered, disconnected>>
    /\ UNCHANGED <<callVars, schainVars, auxVars>>
    /\ UNCHANGED <<path, active, timeout, reply, outcome, sentAt, clock, resultCh,
                   chClosed, wgCount, bidResponses, winningResponse, httpStatus>>
    /\ UNCHANGED auctionVars

\* handleAdRequest loop body, first half: s.bidder.SendBidRequest(ctx, bidReq, dp)
\* is entered for the next partner of the slice
AdSend ==
    /\ fpc = "loop"
    /\ path = "adrequest"
    /\ \A q \in PartnerIDs : tstate[q] # "in_flight"
    /\ \E k \in 1..Len(snapshot) :
           /\ tstate[snapshot[k]] = "queued"
           /\ \A j \in 1..(k - 1) : tstate[snapshot[j]] = "done"
           /\ tstate' = [tstate EXCEPT ![snapshot[k]] = "in_flight"]
           /\ sentAt' = [sentAt EXCEPT ![snapshot[k]] = clock]
           /\ nSent' = [nSent EXCEPT ![snapshot[k]] =
                            IF disconnected THEN @ ELSE @ + 1]
    /\ UNCHANGED <<nDelivered, disconnected>>
    /\ UNCHANGED <<callVars, schainVars, auxVars>>
    /\ UNCHANGED <<path, active, timeout, reply, snapshot, outcome, clock, resultCh,
                   chClosed, wgCount, bidResponses, winningResponse, httpStatus,
                   fpc>>
    /\ UNCHANGED auctionVars

\* handleAdRequest loop body, second half: the call returns, cancel(), the
\* error is skipped or the response stored
AdReturn(p) ==
    /\ fpc = "loop"
    /\ path = "adrequest"
    /\ tstate[p] = "in_flight"
    /\ LET d == AdRequestDeadline(timeout[p])
           oc == IF disconnected THEN "cancelled" ELSE CallOutcome(reply[p], d)
       IN /\ clock' = IF disconnected THEN clock
                      ELSE sentAt[p] + CallDuration(reply[p], d)
          /\ outcome' = [outcome EXCEPT ![p] = oc]
          /\ responses' = StoreOutcome(responses, p, TransportReturn(reply[p], oc))
    /\ tstate' = [tstate EXCEPT ![p] = "done"]
    /\ UNCHANGED <<nSent, nDelivered, disconnected>>
    /\ UNCHANGED <<callVars, schainVars, auxVars>>
    /\ UNCHANGED <<path, active, timeout, reply, snapshot, sentAt, resultCh,
                   chClosed, wgCount, bidResponses, winningResponse, httpStatus,
                   fpc>>
    /\ UNCHANGED <<floor, perIterLoopVar, result, auctionErr, pc>>

\* handleAdRequest after the loop: RunAuction, 204 without a result, else 200
AdAuction ==
    /\ fpc = "loop"
    /\ path = "adrequest"
    /\ \A k \in 1..Len(snapshot) : tstate[snapshot[k]] = "done"
    /\ \E order \in Orders(PresentKeys(responses)) :
           LET r == RunAuction(responses, order, floor, perIterLoopVar)
           IN /\ result' = r
              /\ httpStatus' = IF r.isNil THEN 204 ELSE 200
    /\ auctionErr' = "nil"
    /\ pc' = "done"
    /\ fpc' = "done"
    /\ UNCHANGED <<nSent, nDelivered, disconnected>>
    /\ UNCHANGED <<callVars, schainVars, auxVars>>
    /\ UNCHANGED <<path, active, timeout, reply, snapshot, tstate, outcome, sentAt,
                   clock, resultCh, chClosed, wgCount, bidResponses,
                   winningResponse>>
    /\ UNCHANGED <<responses, floor, perIterLoopVar>>

\* HandleSSAI into processRequest: the snapshot, the early return without
\* partners, make(chan, len(partners)), wg.Add(1) and go func for each partner
SsaiStart ==
    /\ fpc = "start"
    /\ path = "ssai"
    /\ \E ps \in GetActivePartners(active) :
           /\ snapshot' = ps
           /\ IF ps = <<>>
              THEN /\ httpStatus' = 204
                   /\ fpc' = "done"
                   /\ UNCHANGED <<tstate, wgCount>>
              ELSE /\ tstate' = [p \in PartnerIDs |->
                                    IF p \in SeqRange(ps) THEN "queued" ELSE "idle"]
                   /\ wgCount' = Len(ps)
                   /\ fpc' = "collect"
                   /\ UNCHANGED httpStatus
    /\ UNCHANGED <<nSent, nDelivered, disconnected>>
    /\ UNCHANGED <<callVars, schainVars, auxVars>>
    /\ UNCHANGED <<path, active, timeout, reply, outcome, sentAt, clock, resultCh,
                   chClosed, bidResponses, winningResponse>>
    /\ UNCHANGED auctionVars

\* partner task: the request to p is issued
TaskSend(p) ==
    /\ path = "ssai"
    /\ tstate[p] = "queued"
    /\ tstate' = [tstate EXCEPT ![p] = "in_flight"]
    /\ sentAt' = [sentAt EXCEPT ![p] = clock]
    /\ nSent' = [nSent EXCEPT ![p] = @ + 1]
    /\ UNCHANGED <<nDelivered, disconnected>>
    /\ UNCHANGED <<callVars, schainVars, auxVars>>
    /\ UNCHANGED <<path, active, timeout, reply, snapshot, outcome, clock, resultCh,
                   chClosed, wgCount, bidResponses, winningResponse, httpStatus,
                   fpc>>
    /\ UNCHANGED auctionVars

TaskFinishTime(p) ==
    sentAt[p] + CallDuration(reply[p], ProcessDeadline(PartnerType(p), timeout[p]))

\* partner task: the call to p returns (the earliest pending return comes
\* first) and the result is sent on resultCh, which takes the send while
\* its buffer has room
TaskReturn(p) ==
    /\ path = "ssai"
    /\ tstate[p] = "in_flight"
    /\ \A q \in PartnerIDs : tstate[q] # "queued"
    /\ \A q \in PartnerIDs :
           tstate[q] = "in_flight" => TaskFinishTime(p) <= TaskFinishTime(q)
    /\ LET oc == CallOutcome(reply[p], ProcessDeadline(PartnerType(p), timeout[p]))
           ret == TaskReturnValue(PartnerType(p), reply[p], oc)
       IN /\ outcome' = [outcome EXCEPT ![p] = oc]
          /\ resultCh' = Append(resultCh,
                 [partner |-> p, response |-> ret.response, err |-> ret.err])
    /\ Len(resultCh) < ChanCap(snapshot)
    /\ clock' = TaskFinishTime(p)
    /\ tstate' = [tstate EXCEPT ![p] = "delivered"]
    /\ nDelivered' = [nDelivered EXCEPT ![p] = @ + 1]
    /\ UNCHANGED <<nSent, disconnected>>
    /\ UNCHANGED <<callVars, schainVars, auxVars>>
    /\ UNCHANGED <<path, active, timeout, reply, snapshot, sentAt, chClosed,
                   wgCount, bidResponses, winningResponse, httpStatus, fpc>>
    /\ UNCHANGED auctionVars

\* partner task: the deferred cancel() and wg.Done()
TaskDone(p) ==
    /\ path = "ssai"
    /\ tstate[p] = "delivered"
    /\ tstate' = [tstate EXCEPT ![p] = "done"]
    /\ wgCount' = wgCount - 1
    /\ UNCHANGED <<nSent, nDelivered, disconnected>>
    /\ UNCHANGED <<callVars, schainVars, auxVars>>
    /\ UNCHANGED <<path, active, timeout, reply, snapshot, outcome, sentAt, clock,
                   resultCh, chClosed, bidResponses, winningResponse, httpStatus,
                   fpc>>
    /\ UNCHANGED auctionVars

\* go func() { wg.Wait(); close(resultCh) }()
CloseCh ==
    /\ path = "ssai"
    /\ fpc = "collect"
    /\ WaitDone(wgCount)
    /\ ~chClosed
    /\ chClosed' = TRUE
    /\ UNCHANGED <<nSent, nDelivered, disconnected>>
    /\ UNCHANGED <<callVars, schainVars, auxVars>>
    /\ UNCHANGED <<path, active, timeout, reply, snapshot, tstate, outcome, sentAt,
                   clock, resultCh, wgCount, bidResponses, winningResponse,
                   httpStatus, fpc>>
    /\ UNCHANGED auctionVars

\* for result := range resultCh: one result is received
Collect ==
    /\ path = "ssai"
    /\ fpc = "collect"
    /\ resultCh # <<>>
    /\ bidResponses' = KeepResult(bidResponses, Head(resultCh))
    /\ resultCh' = Tail(resultCh)
    /\ UNCHANGED <<nSent, nDelivered, disconnected>>
    /\ UNCHANGED <<callVars, schainVars, auxVars>>
    /\ UNCHANGED <<path, active, timeout, reply, snapshot, tstate, outcome, sentAt,
                   clock, chClosed, wgCount, winningResponse, httpStatus, fpc>>
    /\ UNCHANGED auctionVars

\* the range ends on the closed, drained channel: selectWinner, then
\* HandleSSAI answers 204 on an error and 200 otherwise
SsaiFinish ==
    /\ path = "ssai"
    /\ fpc = "collect"
    /\ chClosed
    /\ resultCh = <<>>
    /\ LET w == IF Len(bidResponses) = 0 THEN NilWinning
                ELSE selectWinner(bidResponses)
       IN /\ winningResponse' = w
          /\ httpStatus' = IF w.isNil THEN 204 ELSE 200
    /\ fpc' = "done"
    /\ UNCHANGED <<nSent, nDelivered, disconnected>>
    /\ UNCHANGED <<callVars, schainVars, auxVars>>
    /\ UNCHANGED <<path, active, timeout, reply, snapshot, tstate, outcome, sentAt,
                   clock, resultCh, chClosed, wgCount, bidResponses>>
    /\ UNCHANGED auctionVars

NextFanout ==
    \/ AdSnapshot
    \/ AdSend
    \/ \E p \in PartnerIDs : AdReturn(p)
    \/ AdAuction
    \/ SsaiStart
    \/ \E p \in PartnerIDs : TaskSend(p)
    \/ \E p \in PartnerIDs : TaskReturn(p)
    \/ \E p \in PartnerIDs : TaskDone(p)
    \/ CloseCh
    \/ Collect
    \/ SsaiFinish

SpecFanout == InitFanout /\ [][NextFanout]_vars

\* ------------------------------------------------------------------------
\* SpecProcess: SSP.processRequest alone, its goroutines scheduled fairly
\* ------------------------------------------------------------------------
InitProcess == InitFanout /\ path = "ssai"

NextProcess ==
    \/ SsaiStart
    \/ \E p \in PartnerIDs : TaskSend(p)
    \/ \E p \in PartnerIDs : TaskReturn(p)
    \/ \E p \in PartnerIDs : TaskDone(p)
    \/ CloseCh
    \/ Collect
    \/ SsaiFinish

\* every partner call returns by its deadline and the Go scheduler runs every
\* runnable goroutine: a step that stays possible is eventually taken
SpecProcess == InitProcess /\ [][NextProcess]_vars /\ WF_vars(NextProcess)

\* ------------------------------------------------------------------------
\* SpecCancel: the fan-out with an ingress caller that may go away
\* ------------------------------------------------------------------------
\* The caller disconnects while the partners are being asked: the context of
\* its request (c.Request.Context()) is cancelled. HandleSSAI derives its
\* context from context.Background(), which the disconnect does not reach.
Disconnect ==
    /\ fpc \in {"loop", "collect"}
    /\ ~disconnected
    /\ disconnected' = TRUE
    /\ UNCHANGED <<path, active, timeout, reply, snapshot, tstate, outcome, sentAt,
                   clock, resultCh, chClosed, wgCount, bidResponses,
                   winningResponse, httpStatus, fpc, nSent, nDelivered>>
    /\ UNCHANGED <<auctionVars, callVars, schainVars, auxVars>>

NextCancel ==
    \/ NextFanout
    \/ Disconnect

SpecCancel == InitFanout /\ [][NextCancel]_vars

\* ------------------------------------------------------------------------
\* SpecRegistry: the fan-out while the partner registry is being changed
\* ------------------------------------------------------------------------
\* partner endpoints of this specification: one that never answers, one
\* that bids
RegistryReplies ==
    {SilentReply, [kind |-> "bid", latency |-> 20, seatbid |-> <<<<[id |-> 11, price |-> 200]>>>>]}

\* the registry holds any subset of the partners, each active or not
InitRegistry ==
    /\ responses = [p \in PartnerIDs |-> AbsentResponse]
    /\ floor = 100
    /\ perIterLoopVar \in BOOLEAN
    /\ result = NilResult
    /\ auctionErr = "unset"
    /\ pc = "build"
    /\ path \in {"adrequest", "ssai"}
    /\ active \in UNION {[S -> BOOLEAN] : S \in SUBSET PartnerIDs}
    /\ timeout = [p \in PartnerIDs |-> 100]
    /\ reply \in [PartnerIDs -> RegistryReplies]
    /\ snapshot = <<>>
    /\ tstate = [p \in PartnerIDs |-> "idle"]
    /\ outcome = [p \in PartnerIDs |-> "none"]
    /\ sentAt = [p \in PartnerIDs |-> 0]
    /\ clock = 0
    /\ resultCh = <<>>
    /\ chClosed = FALSE
    /\ wgCount = 0
    /\ bidResponses = <<>>
    /\ winningResponse = NilWinning
    /\ httpStatus = 0
    /\ fpc = "start"
    /\ nSent = [p \in PartnerIDs |-> 0]
    /\ nDelivered = [p \in PartnerIDs |-> 0]
    /\ disconnected = FALSE
    /\ CallIdle
    /\ SchainIdle
    /\ AuxIdle

\* PartnerManager.AddPartner: pm.partners[partner.ID] = partner, the partner
\* new to the map or replacing the entry of its ID, with Active = a
AddPartner(p, a) ==
    /\ fpc # "done"
    /\ IF p \in DOMAIN active THEN active[p] # a ELSE TRUE
    /\ active' = [q \in (DOMAIN active) \cup {p} |-> IF q = p THEN a ELSE active[q]]
    /\ UNCHANGED <<path, timeout, reply, snapshot, tstate, outcome, sentAt, clock,
                   resultCh, chClosed, wgCount, bidResponses, winningResponse,
                   httpStatus, fpc, nSent, nDelivered, disconnected>>
    /\ UNCHANGED <<auctionVars, callVars, schainVars, auxVars>>

NextRegistry ==
    \/ NextFanout
    \/ \E p \in PartnerIDs, a \in BOOLEAN : AddPartner(p, a)

SpecRegistry == InitRegistry /\ [][NextRegistry]_vars

\* ------------------------------------------------------------------------
\* SpecCall: one partner call through one dispatch path
\* ------------------------------------------------------------------------
\* the auction variables while no auction is being run
AuctionIdle ==
    /\ responses = [p \in PartnerIDs |-> AbsentResponse]
    /\ floor = 0
    /\ perIterLoopVar = TRUE
    /\ result = NilResult
    /\ auctionErr = "unset"
    /\ pc = "idle"

Dispatches == {"handleAdRequest", "processRequest", "SendToPartner"}

InitCall ==
    /\ AuctionIdle
    /\ FanIdle
    /\ SchainIdle
    /\ AuxIdle
    /\ dispatch \in Dispatches
    /\ partner \in [Type : PartnerTypes, APIKey : APIKeys]
    /\ exadsClient \in EXADSClients
    /\ endpoint \in Endpoints
    /\ reqSent = FALSE
    /\ reqHeaders = {}
    /\ callRet = NoReturn
    /\ cpc = "call"

\* handleAdRequest loop body: resp, err := s.bidder.SendBidRequest(ctx, bidReq, dp)
HandleAdRequestCall ==
    /\ cpc = "call"
    /\ dispatch = "handleAdRequest"
    /\ LET c == BidderSendBidRequest(endpoint)
       IN /\ reqSent' = c.sent
          /\ reqHeaders' = c.headers
          /\ callRet' = c.ret
    /\ cpc' = "done"
    /\ UNCHANGED <<dispatch, partner, exadsClient, endpoint>>
    /\ UNCHANGED <<auctionVars, fanVars, schainVars, auxVars>>

\* processRequest task: the switch on p.Type and the transport it picks
ProcessRequestCall ==
    /\ cpc = "call"
    /\ dispatch = "processRequest"
    /\ LET c == ProcessRequestSend(partner, endpoint)
       IN /\ reqSent' = c.sent
          /\ reqHeaders' = c.headers
          /\ callRet' = c.ret
    /\ cpc' = "done"
    /\ UNCHANGED <<dispatch, partner, exadsClient, endpoint>>
    /\ UNCHANGED <<auctionVars, fanVars, schainVars, auxVars>>

\* pm.SendToPartner(ctx, partner, bidReq); the "exads" case fills
\* pm.exadsClient when it is nil
SendToPartnerCall ==
    /\ cpc = "call"
    /\ dispatch = "SendToPartner"
    /\ LET c == SendToPartner(exadsClient, partner, endpoint)
       IN /\ reqSent' = c.sent
          /\ reqHeaders' = c.headers
          /\ callRet' = c.ret
    /\ exadsClient' = IF partner.Type = "exads"
                      THEN SendToPartnerClient(exadsClient, partner)
                      ELSE exadsClient
    /\ cpc' = "done"
    /\ UNCHANGED <<dispatch, partner, endpoint>>
    /\ UNCHANGED <<auctionVars, fanVars, schainVars, auxVars>>

NextCall ==
    \/ HandleAdRequestCall
    \/ ProcessRequestCall
    \/ SendToPartnerCall

SpecCall == InitCall /\ [][NextCall]_vars

\* ------------------------------------------------------------------------
\* SpecSchain: the supply chain functions applied to assembled inputs
\* ------------------------------------------------------------------------
InitSchain ==
    /\ AuctionIdle
    /\ FanIdle
    /\ CallIdle
    /\ AuxIdle
    /\ ourASI \in BuilderASIs
    /\ publisherID \in PublisherIDInputs
    /\ nodesIn = <<>>
    /\ verIn \in VerInputs
    /\ jsonIn \in JsonShapes
    /\ extIn \in ExtShapes
    /\ source = SourceOf(extIn, OldSchain, 0)
    /\ schainOp = "build"
    /\ schainOut = NoSchainOut

\* the chain handed to ValidateSupplyChain: a nil pointer, or the input
\* nodes under the input ver
InputChain == IF jsonIn = "null" THEN NilChain ELSE Chain(1, nodesIn, verIn)

\* the caller appends one more node to the input
AddNode(n) ==
    /\ schainOp = "build"
    /\ Len(nodesIn) < MaxNodes
    /\ nodesIn' = Append(nodesIn, n)
    /\ UNCHANGED <<ourASI, publisherID, verIn, jsonIn, extIn, source, schainOp,
                   schainOut>>
    /\ UNCHANGED <<auctionVars, fanVars, callVars, auxVars>>

\* schain, err := builder.BuildForPublisher(publisherID, publisherDomain)
CallBuildForPublisher ==
    /\ schainOp = "build"
    /\ schainOp' = "BuildForPublisher"
    /\ schainOut' = BuildForPublisher(Builder(ourASI), publisherID, PublisherDomain)
    /\ UNCHANGED <<ourASI, publisherID, nodesIn, verIn, jsonIn, extIn, source>>
    /\ UNCHANGED <<auctionVars, fanVars, callVars, auxVars>>

\* schain, err := builder.BuildForIntermediary(publisherID, publisherDomain, intermediaries)
CallBuildForIntermediary ==
    /\ schainOp = "build"
    /\ schainOp' = "BuildForIntermediary"
    /\ schainOut' = BuildForIntermediary(Builder(ourASI), publisherID,
                                         PublisherDomain, nodesIn)
    /\ UNCHANGED <<ourASI, publisherID, nodesIn, verIn, jsonIn, extIn, source>>
    /\ UNCHANGED <<auctionVars, fanVars, callVars, auxVars>>

\* schain, err := builder.BuildIncomplete(publisherID)
CallBuildIncomplete ==
    /\ schainOp = "build"
    /\ schainOp' = "BuildIncomplete"
    /\ schainOut' = BuildIncomplete(Builder(ourASI), publisherID)
    /\ UNCHANGED <<ourASI, publisherID, nodesIn, verIn, jsonIn, extIn, source>>
    /\ UNCHANGED <<auctionVars, fanVars, callVars, auxVars>>

\* err := ValidateSupplyChain(schain)
CallValidateSupplyChain ==
    /\ schainOp = "build"
    /\ schainOp' = "ValidateSupplyChain"
    /\ schainOut' = [chain |-> InputChain, err |-> ValidateSupplyChain(InputChain)]
    /\ UNCHANGED <<ourASI, publisherID, nodesIn, verIn, jsonIn, extIn, source>>
    /\ UNCHANGED <<auctionVars, fanVars, callVars, auxVars>>

\* schain, err := FromJSON(data)
CallFromJSON ==
    /\ schainOp = "build"
    /\ schainOp' = "FromJSON"
    /\ schainOut' = FromJSON(JsonValue(jsonIn, nodesIn, verIn))
    /\ UNCHANGED <<ourASI, publisherID, nodesIn, verIn, jsonIn, extIn, source>>
    /\ UNCHANGED <<auctionVars, fanVars, callVars, auxVars>>

\* schain, err := ExtractFromSource(source)
CallExtractFromSource ==
    /\ schainOp = "build"
    /\ schainOp' = "ExtractFromSource"
    /\ schainOut' = ExtractFromSource(extIn, JsonValue(jsonIn, nodesIn, verIn))
    /\ UNCHANGED <<ourASI, publisherID, nodesIn, verIn, jsonIn, extIn, source>>
    /\ UNCHANGED <<auctionVars, fanVars, callVars, auxVars>>

\* data, err := s.ToJSON(); parsed, err := FromJSON(data)
CallToJSONFromJSON ==
    /\ schainOp = "build"
    /\ schainOp' = "ToJSONFromJSON"
    /\ schainOut' = FromJSON(ToJSON(InputChain))
    /\ UNCHANGED <<ourASI, publisherID, nodesIn, verIn, jsonIn, extIn, source>>
    /\ UNCHANGED <<auctionVars, fanVars, callVars, auxVars>>

\* err := AddToSource(source, schain), on a fresh Source or on one that
\* AddToSource has already written
CallAddToSource ==
    /\ schainOp \in {"build", "AddToSource"}
    /\ source.adds < MaxAdds
    /\ LET r == AddToSource(source, InputChain)
       IN /\ source' = [r.source EXCEPT !.adds = source.adds + 1]
          /\ schainOut' = [chain |-> InputChain, err |-> r.err]
    /\ schainOp' = "AddToSource"
    /\ UNCHANGED <<ourASI, publisherID, nodesIn, verIn, jsonIn, extIn>>
    /\ UNCHANGED <<auctionVars, fanVars, callVars, auxVars>>

\* extracted, err := ExtractFromSource(source), after AddToSource
CallExtractAfterAdd ==
    /\ schainOp = "AddToSource"
    /\ schainOp' = "ExtractAfterAdd"
    /\ schainOut' = ExtractFromSource(source.ext, source.schain)
    /\ UNCHANGED <<ourASI, publisherID, nodesIn, verIn, jsonIn, extIn, source>>
    /\ UNCHANGED <<auctionVars, fanVars, callVars, auxVars>>

NextSchain ==
    \/ \E n \in InputNodes : AddNode(n)
    \/ CallToJSONFromJSON
    \/ CallAddToSource
    \/ CallExtractAfterAdd
    \/ CallBuildForPublisher
    \/ CallBuildForIntermediary
    \/ CallBuildIncomplete
    \/ CallValidateSupplyChain
    \/ CallFromJSON
    \/ CallExtractFromSource

SpecSchain == InitSchain /\ [][NextSchain]_vars

\* ------------------------------------------------------------------------
\* SpecBuild: BuildBidRequest applied to a placement
\* ------------------------------------------------------------------------
InitBuild ==
    /\ AuctionIdle
    /\ FanIdle
    /\ CallIdle
    /\ SchainIdle
    /\ SellersIdle
    /\ CacheIdle
    /\ TrackIdle
    /\ ExtIdle
    /\ placement \in {PlacementOf(t, fl, sized, multi, settings) :
                          t \in AdTypes, fl \in BuildFloors, sized \in BOOLEAN,
                          multi \in BOOLEAN, settings \in BOOLEAN}
    /\ uuidSeed \in UuidSeeds
    /\ bidReq = NilBidRequest
    /\ buildErr = "unset"
    /\ bpc = "input"

\* bidReq, err := builder.BuildBidRequest(adReq, placement, site, publisher)
CallBuildBidRequest ==
    /\ bpc = "input"
    /\ LET r == BuildBidRequest(placement, uuidSeed)
       IN /\ bidReq' = r.req
          /\ buildErr' = r.err
          /\ uuidSeed' = r.seed
    /\ bpc' = "done"
    /\ UNCHANGED placement
    /\ UNCHANGED <<auctionVars, fanVars, callVars, schainVars>>
    /\ UNCHANGED <<sellersVars, cacheVars, trackVars, extVars>>

NextBuild == CallBuildBidRequest

SpecBuild == InitBuild /\ [][NextBuild]_vars

\* ------------------------------------------------------------------------
\* SpecSellers: GenerateFromPublishers applied to a list of publishers
\* ------------------------------------------------------------------------
InitSellers ==
    /\ AuctionIdle
    /\ FanIdle
    /\ CallIdle
    /\ SchainIdle
    /\ BuildIdle
    /\ CacheIdle
    /\ TrackIdle
    /\ ExtIdle
    /\ publishers = <<>>
    /\ sellersOut = NoSellersJSON
    /\ spc = "input"

\* the caller appends one more publisher to the list
AddPublisher(pub) ==
    /\ spc = "input"
    /\ Len(publishers) < MaxPublishers
    /\ publishers' = Append(publishers, pub)
    /\ UNCHANGED <<sellersOut, spc>>
    /\ UNCHANGED <<auctionVars, fanVars, callVars, schainVars>>
    /\ UNCHANGED <<buildVars, cacheVars, trackVars, extVars>>

\* sellersJSON, err := generator.GenerateFromPublishers(publishers)
CallGenerateFromPublishers ==
    /\ spc = "input"
    /\ sellersOut' = GenerateFromPublishers(publishers)
    /\ spc' = "done"
    /\ UNCHANGED publishers
    /\ UNCHANGED <<auctionVars, fanVars, callVars, schainVars>>
    /\ UNCHANGED <<buildVars, cacheVars, trackVars, extVars>>

NextSellers ==
    \/ \E pub \in PublisherInputs : AddPublisher(pub)
    \/ CallGenerateFromPublishers

SpecSellers == InitSellers /\ [][NextSellers]_vars

\* ------------------------------------------------------------------------
\* SpecCache: a SellersJSONCache under Set, Get, IsExpired, Clear and time
\* ------------------------------------------------------------------------
\* cache := NewSellersJSONCache(ttl)
InitCache ==
    /\ AuctionIdle
    /\ FanIdle
    /\ CallIdle
    /\ SchainIdle
    /\ BuildIdle
    /\ SellersIdle
    /\ TrackIdle
    /\ ExtIdle
    /\ cacheData = "nil"
    /\ cacheUpdatedAt = 0
    /\ cacheTTL \in TTLs
    /\ now = StartTime
    /\ sinceClear = "none"
    /\ sinceSet = 0
    /\ cacheRet = NoCacheRet

\* cache.Set(data)
CacheSetCall(d) ==
    /\ cacheData' = d
    /\ cacheUpdatedAt' = now
    /\ sinceClear' = d
    /\ sinceSet' = 0
    /\ cacheRet' = NoCacheRet
    /\ UNCHANGED <<cacheTTL, now>>
    /\ UNCHANGED <<auctionVars, fanVars, callVars, schainVars>>
    /\ UNCHANGED <<buildVars, sellersVars, trackVars, extVars>>

\* data, ok := cache.Get()
CacheGetCall ==
    /\ cacheRet' = CacheGet(cacheData, cacheUpdatedAt, cacheTTL, now)
    /\ UNCHANGED <<cacheData, cacheUpdatedAt, cacheTTL, now, sinceClear, sinceSet>>
    /\ UNCHANGED <<auctionVars, fanVars, callVars, schainVars>>
    /\ UNCHANGED <<buildVars, sellersVars, trackVars, extVars>>

\* expired := cache.IsExpired()
CacheIsExpiredCall ==
    /\ cacheRet' = CacheIsExpired(cacheData, cacheUpdatedAt, cacheTTL, now)
    /\ UNCHANGED <<cacheData, cacheUpdatedAt, cacheTTL, now, sinceClear, sinceSet>>
    /\ UNCHANGED <<auctionVars, fanVars, callVars, schainVars>>
    /\ UNCHANGED <<buildVars, sellersVars, trackVars, extVars>>

\* cache.Clear()
CacheClearCall ==
    /\ cacheData' = "nil"
    /\ cacheUpdatedAt' = 0
    /\ sinceClear' = "none"
    /\ sinceSet' = 0
    /\ cacheRet' = NoCacheRet
    /\ UNCHANGED <<cacheTTL, now>>
    /\ UNCHANGED <<auctionVars, fanVars, callVars, schainVars>>
    /\ UNCHANGED <<buildVars, sellersVars, trackVars, extVars>>

\* one unit of time passes
Tick ==
    /\ now < MaxTime
    /\ now' = now + 1
    /\ sinceSet' = IF sinceClear = "none" THEN 0 ELSE sinceSet + 1
    /\ cacheRet' = NoCacheRet
    /\ UNCHANGED <<cacheData, cacheUpdatedAt, cacheTTL, sinceClear>>
    /\ UNCHANGED <<auctionVars, fanVars, callVars, schainVars>>
    /\ UNCHANGED <<buildVars, sellersVars, trackVars, extVars>>

NextCache ==
    \/ \E d \in CacheDatas : CacheSetCall(d)
    \/ CacheGetCall
    \/ CacheIsExpiredCall
    \/ CacheClearCall
    \/ Tick

SpecCache == InitCache /\ [][NextCache]_vars

\* ------------------------------------------------------------------------
\* SpecTrack: ad requests, impression and click hits, and their logging
\* ------------------------------------------------------------------------
\* Each handler starts a goroutine that appends to the sink, then writes its
\* response; the goroutine runs at any time after it was started. The
\* partner fan-out and the auction of handleAdRequest are SpecFanout's;
\* here the auction has a winner or has none.
InitTrack ==
    /\ AuctionIdle
    /\ FanIdle
    /\ CallIdle
    /\ SchainIdle
    /\ BuildIdle
    /\ SellersIdle
    /\ CacheIdle
    /\ ExtIdle
    /\ sinkConfig \in {"disabled", "refused", "connected"}
    /\ analyticsStore = AnalyticsStoreOf(sinkConfig)
    /\ processUp = TRUE
    /\ handling = NoRequest
    /\ goroutines = <<>>
    /\ impressionLog = <<>>
    /\ dropped = 0
    /\ hits = [b \in BidIDs |-> 0]
    /\ answers = <<>>
    /\ publisherRevenue = 0
    /\ auctionTotal = 0
    /\ impressionsTotal = 0

\* handleAdRequest up to the fan-out: go func() { ... LogAdRequest ... }()
EnterAdRequest ==
    /\ processUp
    /\ handling = NoRequest
    /\ Len(answers) < MaxRequests
    /\ handling' = [kind |-> "adrequest", bid |-> ""]
    /\ goroutines' = Append(goroutines, [kind |-> "adrequest", bid |-> ""])
    /\ UNCHANGED <<sinkConfig, analyticsStore, processUp, impressionLog, dropped,
                   hits, answers, publisherRevenue, auctionTotal,
                   impressionsTotal>>
    /\ UNCHANGED <<auctionVars, fanVars, callVars, schainVars>>
    /\ UNCHANGED <<buildVars, sellersVars, cacheVars, extVars>>

\* handleAdRequest from the auction on: 204 without a winner, else the
\* revenue counter is advanced and the ad is answered with 200
RespondAdRequest(won) ==
    /\ processUp
    /\ handling.kind = "adrequest"
    /\ handling' = NoRequest
    /\ auctionTotal' = auctionTotal + 1
    /\ publisherRevenue' =
           IF won THEN publisherRevenue + TrackPublisherShare ELSE publisherRevenue
    /\ answers' = Append(answers, [kind |-> "adrequest",
                                    status |-> IF won THEN 200 ELSE 204,
                                    bytes |-> 0])
    /\ UNCHANGED <<sinkConfig, analyticsStore, processUp, goroutines,
                   impressionLog, dropped, hits, impressionsTotal>>
    /\ UNCHANGED <<auctionVars, fanVars, callVars, schainVars>>
    /\ UNCHANGED <<buildVars, sellersVars, cacheVars, extVars>>

\* handleImpressionTracking, first half: impressionsTotal.Inc(), then
\* go func() { ... LogImpression ... }()
EnterImpression(b) ==
    /\ processUp
    /\ handling = NoRequest
    /\ Len(answers) < MaxRequests
    /\ handling' = [kind |-> "impression", bid |-> b]
    /\ hits' = [hits EXCEPT ![b] = @ + 1]
    /\ impressionsTotal' = impressionsTotal + 1
    /\ goroutines' = Append(goroutines, [kind |-> "impression", bid |-> b])
    /\ UNCHANGED <<sinkConfig, analyticsStore, processUp, impressionLog, dropped,
                   answers, publisherRevenue, auctionTotal>>
    /\ UNCHANGED <<auctionVars, fanVars, callVars, schainVars>>
    /\ UNCHANGED <<buildVars, sellersVars, cacheVars, extVars>>

\* handleImpressionTracking, second half: c.Data(200, "image/gif", ...)
RespondImpression ==
    /\ processUp
    /\ handling.kind = "impression"
    /\ handling' = NoRequest
    /\ answers' = Append(answers, [kind |-> "impression", status |-> 200,
                                    bytes |-> GifBytes])
    /\ UNCHANGED <<sinkConfig, analyticsStore, processUp, goroutines,
                   impressionLog, dropped, hits, publisherRevenue, auctionTotal,
                   impressionsTotal>>
    /\ UNCHANGED <<auctionVars, fanVars, callVars, schainVars>>
    /\ UNCHANGED <<buildVars, sellersVars, cacheVars, extVars>>

\* handleClickTracking, first half: go func() { ... LogClick ... }()
EnterClick(b) ==
    /\ processUp
    /\ handling = NoRequest
    /\ Len(answers) < MaxRequests
    /\ handling' = [kind |-> "click", bid |-> b]
    /\ goroutines' = Append(goroutines, [kind |-> "click", bid |-> b])
    /\ UNCHANGED <<sinkConfig, analyticsStore, processUp, impressionLog, dropped,
                   hits, answers, publisherRevenue, auctionTotal,
                   impressionsTotal>>
    /\ UNCHANGED <<auctionVars, fanVars, callVars, schainVars>>
    /\ UNCHANGED <<buildVars, sellersVars, cacheVars, extVars>>

\* handleClickTracking, second half: c.Status(200)
RespondClick ==
    /\ processUp
    /\ handling.kind = "click"
    /\ handling' = NoRequest
    /\ answers' = Append(answers, [kind |-> "click", status |-> 200, bytes |-> 0])
    /\ UNCHANGED <<sinkConfig, analyticsStore, processUp, goroutines,
                   impressionLog, dropped, hits, publisherRevenue, auctionTotal,
                   impressionsTotal>>
    /\ UNCHANGED <<auctionVars, fanVars, callVars, schainVars>>
    /\ UNCHANGED <<buildVars, sellersVars, cacheVars, extVars>>

\* one logging goroutine runs: s.analyticsStore.LogAdRequest / LogImpression
\* / LogClick. On a nil store the method reads as.conn through a nil
\* pointer: the goroutine panics, nothing recovers it, the process exits.
\* On a store that is up the append succeeds, or returns an error that is
\* logged and dropped
RunLogGoroutine(i, appended) ==
    /\ processUp
    /\ i \in 1..Len(goroutines)
    /\ goroutines' = [j \in 1..(Len(goroutines) - 1) |->
                          IF j < i THEN goroutines[j] ELSE goroutines[j + 1]]
    /\ processUp' = (analyticsStore # "nil")
    /\ impressionLog' =
           IF analyticsStore # "nil" /\ appended /\ goroutines[i].kind = "impression"
           THEN Append(impressionLog, [BidID |-> goroutines[i].bid])
           ELSE impressionLog
    /\ dropped' = IF analyticsStore # "nil" /\ ~appended THEN dropped + 1 ELSE dropped
    /\ UNCHANGED <<sinkConfig, analyticsStore, handling, hits, answers,
                   publisherRevenue, auctionTotal, impressionsTotal>>
    /\ UNCHANGED <<auctionVars, fanVars, callVars, schainVars>>
    /\ UNCHANGED <<buildVars, sellersVars, cacheVars, extVars>>

NextTrack ==
    \/ EnterAdRequest
    \/ \E won \in BOOLEAN : RespondAdRequest(won)
    \/ \E b \in BidIDs : EnterImpression(b)
    \/ RespondImpression
    \/ \E b \in BidIDs : EnterClick(b)
    \/ RespondClick
    \/ \E i \in 1..MaxRequests, appended \in BOOLEAN : RunLogGoroutine(i, appended)

SpecTrack == InitTrack /\ [][NextTrack]_vars

\* ------------------------------------------------------------------------
\* SpecPublica: one request at POST /publica/ssai or GET /publica/vast
\* ------------------------------------------------------------------------
\* The request has been parsed; both partners are active and each one's
\* transport has its return ready. processRequest's goroutines and channel
\* are SpecFanout's; here its results arrive in any order.
InitPublica ==
    /\ AuctionIdle
    /\ FanIdle
    /\ CallIdle
    /\ SchainIdle
    /\ BuildIdle
    /\ SellersIdle
    /\ CacheIdle
    /\ TrackIdle
    /\ AdIdle
    /\ XformIdle
    /\ MgrIdle
    /\ pubReq \in
           {[handler |-> "HandleSSAI", dealID |-> d, floor |-> fl, size |-> sz] :
                d \in PubDealIDs, fl \in PubFloors, sz \in SizeParams}
           \cup {[handler |-> "HandleVAST", dealID |-> d, floor |-> fl,
                  size |-> [kind |-> "absent", str |-> <<>>]] :
                d \in PubDealIDs, fl \in PubFloors}
    /\ pubReplies \in [PartnerIDs -> UNION {PubRepliesOf(p) : p \in PartnerIDs}]
    /\ \A p \in PartnerIDs : pubReplies[p] \in PubRepliesOf(p)
    /\ pubBidRequest = NoPubBidRequest
    /\ pubAnswer = NoPubAnswer
    /\ ppc = "input"

\* POST /publica/ssai
CallHandleSSAI ==
    /\ ppc = "input"
    /\ pubReq.handler = "HandleSSAI"
    /\ pubBidRequest' = convertToOpenRTB(pubReq)
    /\ \E order \in Orders(PartnerIDs) :
           pubAnswer' = HandleSSAI(processRequest(pubReplies, order))
    /\ ppc' = "done"
    /\ UNCHANGED <<pubReq, pubReplies>>
    /\ UNCHANGED <<auctionVars, fanVars, callVars, schainVars>>
    /\ UNCHANGED <<buildVars, sellersVars, cacheVars, trackVars>>
    /\ UNCHANGED <<adVars, xformVars, mgrVars>>

\* GET /publica/vast
CallHandleVAST ==
    /\ ppc = "input"
    /\ pubReq.handler = "HandleVAST"
    /\ pubBidRequest' = VastBidRequest(pubReq)
    /\ \E order \in Orders(PartnerIDs) :
           pubAnswer' = HandleVAST(processRequest(pubReplies, order))
    /\ ppc' = "done"
    /\ UNCHANGED <<pubReq, pubReplies>>
    /\ UNCHANGED <<auctionVars, fanVars, callVars, schainVars>>
    /\ UNCHANGED <<buildVars, sellersVars, cacheVars, trackVars>>
    /\ UNCHANGED <<adVars, xformVars, mgrVars>>

NextPublica ==
    \/ CallHandleSSAI
    \/ CallHandleVAST

SpecPublica == InitPublica /\ [][NextPublica]_vars

\* ------------------------------------------------------------------------
\* SpecAd: one request at /ad/request or /vast/:placement_id
\* ------------------------------------------------------------------------
\* Both partners are active, the telemetry sink is connected, and each
\* lookup and each partner's transport has its return ready. A request
\* without a placement identifier finds no placement row.
InitAd ==
    /\ AuctionIdle
    /\ FanIdle
    /\ CallIdle
    /\ SchainIdle
    /\ BuildIdle
    /\ SellersIdle
    /\ CacheIdle
    /\ TrackIdle
    /\ PubIdle
    /\ XformIdle
    /\ MgrIdle
    /\ adReq \in
           {[endpoint |-> e, placementID |-> id,
             lookup |-> [placement |-> lp, site |-> ls, publisher |-> lb],
             placement |-> PlacementOf(t, 100, TRUE, FALSE, FALSE),
             replies |-> [p \in PartnerIDs |-> IF p = "A" THEN ra ELSE rb]] :
                e \in {"/ad/request", "/vast"}, id \in {"", PlacementID},
                lp \in Lookups, ls \in Lookups, lb \in Lookups,
                t \in {"banner", "audio"},
                ra \in AdRepliesOf("A"), rb \in AdRepliesOf("B")}
    /\ adReq.placementID = "" => adReq.lookup.placement # "found"
    /\ adResult = NilResult
    /\ adAnswer = NoAdAnswer
    /\ adContacted = {}
    /\ adAuctions = 0
    /\ winNotices = <<>>
    /\ apc = "input"

\* GET or POST /ad/request
CallHandleAdRequest ==
    /\ apc = "input"
    /\ adReq.endpoint = "/ad/request"
    /\ \E order \in Orders(PresentKeys(AdResponses(adReq.replies))),
          perIter \in BOOLEAN :
           LET r == handleAdRequest(adReq, order, perIter)
           IN /\ adAnswer' = r.answer
              /\ adResult' = r.result
              /\ adContacted' = r.contacted
              /\ adAuctions' = r.auctions
              /\ winNotices' = r.notices
    /\ apc' = "done"
    /\ UNCHANGED adReq
    /\ UNCHANGED <<auctionVars, fanVars, callVars, schainVars>>
    /\ UNCHANGED <<buildVars, sellersVars, cacheVars, trackVars>>
    /\ UNCHANGED <<pubVars, xformVars, mgrVars>>

\* GET /vast/:placement_id
CallHandleVASTRequest ==
    /\ apc = "input"
    /\ adReq.endpoint = "/vast"
    /\ LET r == handleVASTRequest(adReq)
       IN /\ adAnswer' = r.answer
          /\ adResult' = r.result
          /\ adContacted' = r.contacted
          /\ adAuctions' = r.auctions
          /\ winNotices' = r.notices
    /\ apc' = "done"
    /\ UNCHANGED adReq
    /\ UNCHANGED <<auctionVars, fanVars, callVars, schainVars>>
    /\ UNCHANGED <<buildVars, sellersVars, cacheVars, trackVars>>
    /\ UNCHANGED <<pubVars, xformVars, mgrVars>>

NextAd ==
    \/ CallHandleAdRequest
    \/ CallHandleVASTRequest

SpecAd == InitAd /\ [][NextAd]_vars

\* ------------------------------------------------------------------------
\* SpecXform: processRequest's tasks for a whitelabel partner (A) and a
\* direct partner (B), both holding the caller's *BidRequest
\* ------------------------------------------------------------------------
\* A runs BidsCubePartner.SendBidRequest: transformRequest, then
\* json.Marshal of the copy. B runs sendOpenRTBRequest: json.Marshal of the
\* caller's request, which reads Source.FD and then Source.TID. The tasks
\* are goroutines without synchronisation, so each read and each write is a
\* step of its own.
InitXform ==
    /\ AuctionIdle
    /\ FanIdle
    /\ CallIdle
    /\ SchainIdle
    /\ BuildIdle
    /\ SellersIdle
    /\ CacheIdle
    /\ TrackIdle
    /\ PubIdle
    /\ AdIdle
    /\ MgrIdle
    /\ xReq \in [Source : SourceInputs, Ext : ExtInputs]
    /\ xOrig = xReq
    /\ xTransformed = NoTransformed
    /\ xSent = [p \in PartnerIDs |-> NoBody]
    /\ xpc = [p \in PartnerIDs |-> "start"]

\* transformed := *req; if transformed.Source == nil { ... = &Source{} }
XformClone ==
    /\ xpc["A"] = "start"
    /\ xTransformed' = CloneRequest(xReq)
    /\ xpc' = [xpc EXCEPT !["A"] = "cloned"]
    /\ UNCHANGED <<xOrig, xReq, xSent>>
    /\ UNCHANGED <<auctionVars, fanVars, callVars, schainVars>>
    /\ UNCHANGED <<buildVars, sellersVars, cacheVars, trackVars>>
    /\ UNCHANGED <<pubVars, adVars, mgrVars>>

\* transformed.Source.FD = openrtb2.Int8Ptr(1)
XformSetFD ==
    /\ xpc["A"] = "cloned"
    /\ IF xTransformed.sourceRef = "shared"
       THEN /\ xReq' = [xReq EXCEPT !.Source.FD = "1"]
            /\ UNCHANGED xTransformed
       ELSE /\ xTransformed' = [xTransformed EXCEPT !.own.FD = "1"]
            /\ UNCHANGED xReq
    /\ xpc' = [xpc EXCEPT !["A"] = "fd"]
    /\ UNCHANGED <<xOrig, xSent>>
    /\ UNCHANGED <<auctionVars, fanVars, callVars, schainVars>>
    /\ UNCHANGED <<buildVars, sellersVars, cacheVars, trackVars>>
    /\ UNCHANGED <<pubVars, adVars, mgrVars>>

\* transformed.Source.TID = uuid.New().String(); transformed.Ext = extBytes
XformSetTID ==
    /\ xpc["A"] = "fd"
    /\ \E u \in XformUUIDs :
           IF xTransformed.sourceRef = "shared"
           THEN /\ xReq' = [xReq EXCEPT !.Source.TID = u]
                /\ xTransformed' = [xTransformed EXCEPT !.Ext = WhitelabelExt]
           ELSE /\ xTransformed' = [xTransformed EXCEPT !.own.TID = u,
                                                        !.Ext = WhitelabelExt]
                /\ UNCHANGED xReq
    /\ xpc' = [xpc EXCEPT !["A"] = "transformed"]
    /\ UNCHANGED <<xOrig, xSent>>
    /\ UNCHANGED <<auctionVars, fanVars, callVars, schainVars>>
    /\ UNCHANGED <<buildVars, sellersVars, cacheVars, trackVars>>
    /\ UNCHANGED <<pubVars, adVars, mgrVars>>

\* body, err := json.Marshal(bidsCubeReq); b.client.Do(httpReq)
XformSend ==
    /\ xpc["A"] = "transformed"
    /\ xSent' = [xSent EXCEPT !["A"] =
                    [sent |-> TRUE,
                     Source |-> TransformedSource(xTransformed, xReq),
                     Ext |-> xTransformed.Ext]]
    /\ xpc' = [xpc EXCEPT !["A"] = "sent"]
    /\ UNCHANGED <<xOrig, xReq, xTransformed>>
    /\ UNCHANGED <<auctionVars, fanVars, callVars, schainVars>>
    /\ UNCHANGED <<buildVars, sellersVars, cacheVars, trackVars>>
    /\ UNCHANGED <<pubVars, adVars, mgrVars>>

\* json.Marshal(bidRequest) in the direct task, up to Source.FD
DirectReadFD ==
    /\ xpc["B"] = "start"
    /\ xSent' = [xSent EXCEPT !["B"] =
                    [sent |-> FALSE,
                     Source |-> [xReq.Source EXCEPT !.TID = ""],
                     Ext |-> "nil"]]
    /\ xpc' = [xpc EXCEPT !["B"] = "readFD"]
    /\ UNCHANGED <<xOrig, xReq, xTransformed>>
    /\ UNCHANGED <<auctionVars, fanVars, callVars, schainVars>>
    /\ UNCHANGED <<buildVars, sellersVars, cacheVars, trackVars>>
    /\ UNCHANGED <<pubVars, adVars, mgrVars>>

\* the rest of json.Marshal(bidRequest): Source.TID and Ext; s.client.Do(req)
DirectSend ==
    /\ xpc["B"] = "readFD"
    /\ xSent' = [xSent EXCEPT !["B"] =
                    [sent |-> TRUE,
                     Source |-> [@.Source EXCEPT !.TID = xReq.Source.TID],
                     Ext |-> xReq.Ext]]
    /\ xpc' = [xpc EXCEPT !["B"] = "sent"]
    /\ UNCHANGED <<xOrig, xReq, xTransformed>>
    /\ UNCHANGED <<auctionVars, fanVars, callVars, schainVars>>
    /\ UNCHANGED <<buildVars, sellersVars, cacheVars, trackVars>>
    /\ UNCHANGED <<pubVars, adVars, mgrVars>>

NextXform ==
    \/ XformClone
    \/ XformSetFD
    \/ XformSetTID
    \/ XformSend
    \/ DirectReadFD
    \/ DirectSend

SpecXform == InitXform /\ [][NextXform]_vars

\* ------------------------------------------------------------------------
\* SpecManager: a PartnerManager under AddPartner and SendToPartner
\* ------------------------------------------------------------------------
\* NewPartnerManager(): no partner, no exads client. No request has been
\* sent; the manager variables are those of MgrIdle.
InitManager ==
    /\ AuctionIdle
    /\ FanIdle
    /\ CallIdle
    /\ SchainIdle
    /\ AuxIdle

\* pm.AddPartner(partner)
ManagerAddPartner ==
    /\ \E id \in ManagerPartnerIDs :
           /\ pmPartners' = pmPartners \cup {id}
           /\ pmExadsClient' = EnsureEXADSClient(pmExadsClient, ManagerPartners[id])
    /\ UNCHANGED pmDelivery
    /\ UNCHANGED <<auctionVars, fanVars, callVars, schainVars>>
    /\ UNCHANGED <<buildVars, sellersVars, cacheVars, trackVars>>
    /\ UNCHANGED <<pubVars, adVars, xformVars>>

\* pm.SendToPartner(ctx, partner, bidReq)
ManagerSendToPartner ==
    /\ \E id \in ManagerPartnerIDs :
           /\ pmDelivery' = DeliveryOf(pmExadsClient, id)
           /\ pmExadsClient' = EnsureEXADSClient(pmExadsClient, ManagerPartners[id])
    /\ UNCHANGED pmPartners
    /\ UNCHANGED <<auctionVars, fanVars, callVars, schainVars>>
    /\ UNCHANGED <<buildVars, sellersVars, cacheVars, trackVars>>
    /\ UNCHANGED <<pubVars, adVars, xformVars>>

NextManager ==
    \/ ManagerAddPartner
    \/ ManagerSendToPartner

SpecManager == InitManager /\ [][NextManager]_vars

\* ------------------------------------------------------------------------
\* What the claims speak of: the bids submitted in the responses map
\* ------------------------------------------------------------------------
\* every bid of every non-nil response, tagged with its partner
SubmittedBids ==
    UNION {UNION {{[Bid |-> responses[p].seatbid[s][b], Partner |-> p] :
                      b \in 1..Len(responses[p].seatbid[s])} :
                  s \in 1..Len(responses[p].seatbid)} :
           p \in {q \in PartnerIDs : responses[q].state = "resp"}}

\* the submitted bids priced at or above the placement floor
AdmittedSet == {e \in SubmittedBids : e.Bid.price >= floor}

MaxPriceOf(S) == CHOOSE x \in {e.Bid.price : e \in S} : \A f \in S : f.Bid.price <= x

SecondHighestPrice(S) ==
    LET tops == {e \in S : e.Bid.price = MaxPriceOf(S)}
    IN IF Cardinality(tops) >= 2 THEN MaxPriceOf(S) ELSE MaxPriceOf(S \ tops)

MaxOf(a, b) == IF a >= b THEN a ELSE b

AuctionDone == pc = "done"
HasResult == pc = "done" /\ ~result.isNil

\* ------------------------------------------------------------------------
\* Claims on RunAuction (Spec)
\* ------------------------------------------------------------------------

\* C1: every bid of the returned AllBids, the winner included, is priced at or
\* above placement.MinBidFloor, and the filter is inclusive: every submitted
\* bid priced at or above the floor has its entry in AllBids.
C1_AllBidsAtOrAboveFloor ==
    AuctionDone =>
        /\ \A i \in 1..Len(result.AllBids) : result.AllBids[i].Bid.price >= floor
        /\ ~result.isNil => result.WinningBid.price >= floor
        /\ Len(result.AllBids) = Cardinality(AdmittedSet)

\* C2: in every non-nil result, MinBidFloor <= ClearedPrice <= WinningBid.Price.
C2_ClearedPriceBetweenFloorAndWinner ==
    HasResult =>
        /\ floor <= result.ClearedPrice
        /\ result.ClearedPrice <= result.WinningBid.price

\* C3: with two or more admitted bids, ClearedPrice is the larger of the floor
\* and the second-highest admitted price, and AuctionType is 2.
C3_SecondPriceClearing ==
    (AuctionDone /\ Cardinality(AdmittedSet) >= 2) =>
        /\ ~result.isNil
        /\ result.ClearedPrice = MaxOf(floor, SecondHighestPrice(AdmittedSet))
        /\ result.AuctionType = 2

\* C4: with exactly one admitted bid, that bid wins and ClearedPrice is the
\* placement floor.
C4_SingleBidClearsAtFloor ==
    (AuctionDone /\ Cardinality(AdmittedSet) = 1) =>
        /\ ~result.isNil
        /\ [Bid |-> result.WinningBid, Partner |-> result.WinningPartner] \in AdmittedSet
        /\ result.ClearedPrice = floor

\* C5: RunAuction returns a nil result and a nil error whenever no bid is
\* admitted (empty map, nil responses, responses without bids, or every bid
\* below the floor).
C5_NoAdmittedBidNoResult ==
    (AuctionDone /\ AdmittedSet = {}) => (result.isNil /\ auctionErr = "nil")

\* C5 witness: a nil response and a response whose only bids are below the
\* floor were auctioned, and no result came back.
C5_Witness ==
    /\ AuctionDone
    /\ \E p \in PartnerIDs : responses[p].state = "nil"
    /\ SubmittedBids # {}
    /\ AdmittedSet = {}
    /\ result.isNil

\* C6: AllBids is a permutation of exactly the admitted bids, in non-increasing
\* price order, and WinningBid / WinningPartner are AllBids[0], the
\* highest-priced admitted bid and its partner.
C6_AllBidsSortedPermutation ==
    HasResult =>
        /\ Len(result.AllBids) = Cardinality(AdmittedSet)
        /\ {result.AllBids[i] : i \in 1..Len(result.AllBids)} = AdmittedSet
        /\ \A i \in 1..(Len(result.AllBids) - 1) :
               result.AllBids[i].Bid.price >= result.AllBids[i + 1].Bid.price
        /\ result.WinningBid = result.AllBids[1].Bid
        /\ result.WinningPartner = result.AllBids[1].Partner
        /\ result.WinningBid.price = MaxPriceOf(AdmittedSet)

\* the admitted bid the tie-break rule names: highest price, then smallest
\* partner identifier, then smallest bid.id
TieBreakWinner ==
    CHOOSE e \in AdmittedSet :
        \A f \in AdmittedSet \ {e} :
            \/ e.Bid.price > f.Bid.price
            \/ /\ e.Bid.price = f.Bid.price
               /\ \/ PartnerRank(e.Partner) < PartnerRank(f.Partner)
                  \/ /\ e.Partner = f.Partner
                     /\ e.Bid.id < f.Bid.id

\* C7: the winner depends on the set of (partner, bid) pairs only: among the
\* admitted bids of equal highest price it is the one of the smallest partner
\* identifier, then of the smallest bid.id. Stated for the build whose range
\* variable is per iteration, where every AllBids entry is its own bid.
C7_DeterministicTieBreak ==
    (HasResult /\ perIterLoopVar) =>
        /\ result.WinningPartner = TieBreakWinner.Partner
        /\ result.WinningBid = TieBreakWinner.Bid

\* ------------------------------------------------------------------------
\* Claims on the fan-out (SpecFanout)
\* ------------------------------------------------------------------------
FanoutDone == fpc = "done"
Responded == {p \in PartnerIDs : outcome[p] = "responded"}
Failed == {p \in PartnerIDs : outcome[p] \in {"error", "timeout"}}

\* C8: on both ingress paths the fan-out stops waiting for partners no later
\* than tmax (120 ms) plus 20 ms of slack after it started, whatever the
\* partners and their timeouts.
C8_FanoutWithinTmax == clock <= Tmax + 20

\* C9: on every ingress path the requests to all active partners are in
\* flight together: no request is still waiting to be issued once another
\* partner's request has completed or timed out.
C9_RequestsConcurrent ==
    \A p \in PartnerIDs, q \in PartnerIDs :
        tstate[q] = "queued" => outcome[p] = "none"

\* some bid of the seatbid list sbs is priced at or above x
HasBidAtLeast(sbs, x) ==
    \E s \in 1..Len(sbs) : \E b \in 1..Len(sbs[s]) : sbs[s][b].price >= x

\* C10: when some partners end in error or timeout and another partner
\* returned a bid, the failed ones are skipped and the auction is decided on
\* the remaining responses: exactly the answered responses are auctioned, and
\* an answered bid that qualifies yields a 200 whose winner answered.
C10_PartnerFailureIsolated ==
    (FanoutDone /\ Failed # {} /\ Responded # {}) =>
        /\ path = "adrequest" =>
               /\ {p \in PartnerIDs : responses[p].state = "resp"} = Responded
               /\ \A p \in Responded : responses[p].seatbid = reply[p].seatbid
               /\ (\E p \in Responded : HasBidAtLeast(reply[p].seatbid, floor)) =>
                      /\ httpStatus = 200
                      /\ result.WinningPartner \in Responded
        /\ path = "ssai" =>
               /\ {bidResponses[i].partner : i \in 1..Len(bidResponses)} =
                      {p \in Responded : Len(reply[p].seatbid) > 0}
               /\ (\E p \in Responded : HasBidAtLeast(reply[p].seatbid, 1)) =>
                      /\ httpStatus = 200
                      /\ winningResponse.partner \in Responded

\* C10 witness: on the ad-tag path one partner never answered, the other
\* answered with a bid above the floor, and the request ended 200 with the
\* answering partner as the winner.
C10_Witness ==
    /\ FanoutDone
    /\ path = "adrequest"
    /\ \E p \in PartnerIDs, q \in PartnerIDs :
           /\ outcome[p] = "timeout"
           /\ outcome[q] = "responded"
           /\ httpStatus = 200
           /\ result.WinningPartner = q

\* ------------------------------------------------------------------------
\* Claims on processRequest's tasks and channel (SpecProcess)
\* ------------------------------------------------------------------------
InSnapshot(p) == p \in SeqRange(snapshot)

\* the state part of C11
ProcessRequestOrderly ==
    /\ \A p \in PartnerIDs :
           /\ nSent[p] <= 1
           /\ nDelivered[p] <= nSent[p]
           /\ ~InSnapshot(p) => nSent[p] = 0
           /\ tstate[p] = "in_flight" =>
                  (~chClosed /\ Len(resultCh) < ChanCap(snapshot))
    /\ chClosed => \A p \in PartnerIDs : InSnapshot(p) => nDelivered[p] = 1
    /\ fpc = "done" =>
           \A p \in PartnerIDs : InSnapshot(p) => (nSent[p] = 1 /\ nDelivered[p] = 1)

CallDone == cpc = "done"

\* C12: every transport maps the partner's reply alike: 204 gives a nil
\* response and a nil error, 200 with a decodable body the response and a nil
\* error, any other status or an undecodable body a nil response and an error.
C12_StatusMapping ==
    (CallDone /\ reqSent /\ endpoint.kind = "reply") =>
        /\ endpoint.status = 204 =>
               (callRet.response.state = "nil" /\ callRet.err = "nil")
        /\ (endpoint.status = 200 /\ endpoint.body = "json") =>
               (callRet.response.state = "resp" /\ callRet.err = "nil")
        /\ (endpoint.status \notin {200, 204}
               \/ (endpoint.status = 200 /\ endpoint.body # "json")) =>
               (callRet.response.state = "nil" /\ callRet.err # "nil")

\* C12 witness: SendToPartner reached an exads partner that answered 500 and
\* handed back an error.
C12_Witness ==
    /\ CallDone
    /\ dispatch = "SendToPartner"
    /\ partner.Type = "exads"
    /\ reqSent
    /\ endpoint.kind = "reply"
    /\ endpoint.status = 500
    /\ callRet.err = "status"

\* the branches the caller takes for a partner error: bad status, undecodable
\* body, refused connection
PartnerErrorBranches ==
    {HandlerBranch(DoAndMap(ep)) :
        ep \in {e \in Endpoints :
                   \/ e.kind = "refused"
                   \/ (e.kind = "reply" /\ e.status \notin {200, 204})
                   \/ (e.kind = "reply" /\ e.status = 200 /\ e.body # "json")}}

\* C13: a call ended by its deadline or by cancellation is handled as an
\* outcome of its own, apart from the one a partner error gets.
C13_TimeoutDistinctFromError ==
    (CallDone /\ dispatch # "SendToPartner"
        /\ endpoint.kind \in {"deadline", "cancelled"}) =>
        HandlerBranch(callRet) \notin PartnerErrorBranches

\* the auth header of the partner's transport flavor: whitelabel ("adnexus"),
\* legacy-adx ("exads"), openrtb (the others)
ExpectedAuthHeader(p) ==
    IF p.Type = "adnexus" THEN <<"X-API-Key", p.APIKey>>
    ELSE IF p.Type = "exads" THEN <<"X-EXADS-API-Key", p.APIKey>>
    ELSE <<"Authorization", "Bearer " \o p.APIKey>>

\* C17: a request sent to a partner with an API key carries the auth header
\* of the partner's flavor, in every dispatch path.
C17_AuthHeaderPerFlavor ==
    (CallDone /\ reqSent /\ partner.APIKey # "") =>
        ExpectedAuthHeader(partner) \in reqHeaders

\* ------------------------------------------------------------------------
\* Claims on cancellation (SpecCancel), the registry (SpecRegistry) and the
\* revenue share (SpecFanout)
\* ------------------------------------------------------------------------

\* C14: once the ingress caller has disconnected nothing more is done for the
\* request: no partner call completes with an answer, no auction is run, no
\* winner is selected and no 200 with a winner is produced.
C14_NoProcessingAfterDisconnect ==
    [][disconnected =>
          /\ \A p \in PartnerIDs :
                 outcome'[p] # outcome[p] => outcome'[p] = "cancelled"
          /\ result' = result
          /\ pc' = pc
          /\ winningResponse' = winningResponse
          /\ bidResponses' = bidResponses
          /\ httpStatus' # 200]_vars

ActiveSet(act) == {p \in DOMAIN act : act[p]}

\* C15: the snapshot an auction takes is exactly the registered partners
\* whose Active flag is set, each once; it does not change afterwards, and the
\* partners contacted are those of the snapshot, each once, whatever is added
\* to or replaced in the registry meanwhile.
C15_SnapshotFixesContacted ==
    [][/\ (fpc = "start" /\ fpc' # "start") =>
              /\ SeqRange(snapshot') = ActiveSet(active)
              /\ Len(snapshot') = Cardinality(ActiveSet(active))
       /\ fpc # "start" => snapshot' = snapshot
       /\ \A p \in PartnerIDs :
              nSent'[p] > 0 => (p \in SeqRange(snapshot') /\ nSent'[p] = 1)
       /\ fpc' = "done" =>
              \A p \in PartnerIDs : p \in SeqRange(snapshot') => nSent'[p] = 1]_vars

\* C15 witness: the request is over, it contacted a partner that was
\* deactivated meanwhile and did not contact one activated meanwhile.
C15_Witness ==
    /\ fpc = "done"
    /\ \E p \in PartnerIDs, q \in PartnerIDs :
           /\ p \in SeqRange(snapshot)
           /\ nSent[p] = 1
           /\ p \in DOMAIN active
           /\ ~active[p]
           /\ q \notin SeqRange(snapshot)
           /\ nSent[q] = 0
           /\ q \in DOMAIN active
           /\ active[q]

\* the seatbid list of partner p that entered the auction of this request
EnteredSeatBids(p) ==
    IF path = "adrequest" THEN responses[p].seatbid
    ELSE LET i == CHOOSE j \in 1..Len(bidResponses) : bidResponses[j].partner = p
         IN bidResponses[i].seatbid

Entered(p) ==
    IF path = "adrequest" THEN responses[p].state = "resp"
    ELSE \E j \in 1..Len(bidResponses) : bidResponses[j].partner = p

\* C16: on every ingress path each bid of a whitelabel partner enters the
\* auction at its returned price times (1 - share), each bid of any other
\* partner at its returned price.
C16_RevShareOnWhitelabelOnly ==
    FanoutDone =>
        \A p \in PartnerIDs :
            Entered(p) =>
                EnteredSeatBids(p) =
                    IF PartnerType(p) = "adnexus" THEN applyRevShare(reply[p].seatbid)
                    ELSE reply[p].seatbid

\* ------------------------------------------------------------------------
\* Claims on the supply chain functions (SpecSchain)
\* ------------------------------------------------------------------------
\* the condition the validation rule states
WellFormedChain(c) ==
    /\ ~c.isNil
    /\ c.Ver # ""
    /\ Len(c.Nodes) >= 1
    /\ \A i \in 1..Len(c.Nodes) :
           /\ c.Nodes[i].ASI # ""
           /\ c.Nodes[i].SID # ""
           /\ c.Nodes[i].HP \in {0, 1}

\* C18: ValidateSupplyChain(s) returns no error exactly when s is non-nil,
\* has a non-empty ver, at least one node, and every node has a non-empty
\* ASI, a non-empty SID and HP 0 or 1.
C18_ValidateIffWellFormed ==
    schainOp = "ValidateSupplyChain" =>
        (schainOut.err = "nil" <=> WellFormedChain(schainOut.chain))

\* C18 witness: a chain of a reseller node and a direct node under ver 1.0
\* was validated without error.
C18_Witness ==
    /\ schainOp = "ValidateSupplyChain"
    /\ schainOut.err = "nil"
    /\ Len(schainOut.chain.Nodes) = 2
    /\ schainOut.chain.Nodes[1].HP = 1

Constructors == {"BuildForPublisher", "BuildForIntermediary", "BuildIncomplete"}
Parsers == {"FromJSON", "ExtractFromSource"}

\* C19: whatever a constructor or a parse returns without error passes
\* ValidateSupplyChain.
C19_ReturnedChainsAreValid ==
    (schainOp \in Constructors \cup Parsers /\ schainOut.err = "nil") =>
        ValidateSupplyChain(schainOut.chain) = "nil"

\* the node a constructor adds for the SSP itself
IsOurNode(n) == n.ASI = ourASI /\ n.SID = publisherID /\ n.HP = 0

C21_ValidIffRoundTrip ==
    schainOp = "ToJSONFromJSON" =>
        /\ (ValidateSupplyChain(InputChain) = "nil")
               <=> (schainOut.err = "nil" /\ schainOut.chain = InputChain)
        /\ (schainOut.err = "nil" /\ schainOut.chain = InputChain) =>
               \A i \in 1..Len(InputChain.Nodes) :
                   /\ InputChain.Nodes[i].ASI # ""
                   /\ InputChain.Nodes[i].SID # ""
                   /\ InputChain.Nodes[i].HP \in {0, 1}

\* the Source handed to AddToSource was not nil and the chain was valid
AddedValid ==
    /\ source.ext.holder # "nil_source"
    /\ ValidateSupplyChain(InputChain) = "nil"

\* C22: AddToSource with a valid chain s puts s under the schain key of
\* Source.Ext and keeps every other key Source.Ext held, whether it held a
\* string, a []byte, a json.RawMessage or a decoded map, and also when
\* AddToSource had written it before; ExtractFromSource on the result
\* returns a chain equal to s.
C22_AddToSourceKeepsOtherKeys ==
    /\ [][(schainOp' = "AddToSource" /\ AddedValid) =>
              /\ schainOut'.err = "nil"
              /\ source'.ext.content = "schain"
              /\ source'.schain = ToJSON(InputChain)
              /\ OtherKeys(source') = OtherKeys(source)]_vars
    /\ []((schainOp = "ExtractAfterAdd" /\ AddedValid) =>
              (schainOut.err = "nil" /\ schainOut.chain = InputChain))

\* a bid request was built and returned without error
Built == bpc = "done" /\ buildErr = "nil"

\* C23: every bid request BuildBidRequest returns without error has
\* source.fd = 1, a source.tid of its own, and under source.ext.schain a
\* supply chain that passes ValidateSupplyChain.
C23_BidRequestCarriesSchain ==
    Built =>
        /\ bidReq.Source.FD = 1
        /\ bidReq.Source.TID \notin {bidReq.ID, bidReq.Imp[1].ID}
        /\ LET x == ExtractFromSource(bidReq.Source.Ext, OldSchain)
           IN x.err = "nil" /\ ValidateSupplyChain(x.chain) = "nil"

\* the impression objects that are set
ImpObjects(imp) ==
    {t \in {"banner", "video", "audio", "native"} :
        ~(CASE t = "banner" -> imp.Banner
            [] t = "video" -> imp.Video
            [] t = "audio" -> imp.Audio
            [] t = "native" -> imp.Native).isNil}

\* C24: for a placement whose ad type is banner, video, audio or native,
\* BuildBidRequest succeeds and returns one impression in which exactly the
\* object named by the ad type is set, with tagid the placement ID and
\* bidfloor the placement floor.
C24_OneImpressionObjectPerAdType ==
    (bpc = "done" /\ placement.AdType \in {"banner", "video", "audio", "native"}) =>
        /\ buildErr = "nil"
        /\ ~bidReq.isNil
        /\ Len(bidReq.Imp) = 1
        /\ ImpObjects(bidReq.Imp[1]) = {placement.AdType}
        /\ bidReq.Imp[1].TagID = placement.ID
        /\ bidReq.Imp[1].BidFloor = placement.MinBidFloor

\* C25: no bid priced below the engine's global minimum floor (the
\* minBidFloor given to NewAuctionEngine) is admitted or wins, also when the
\* placement's own floor is lower.
C25_GlobalMinimumFloor ==
    AuctionDone =>
        /\ \A i \in 1..Len(result.AllBids) :
               result.AllBids[i].Bid.price >= EngineMinBidFloor
        /\ ~result.isNil => result.WinningBid.price >= EngineMinBidFloor

\* the indices of the active publishers of the input, in input order
ActiveIndices == {i \in 1..Len(publishers) : publishers[i].Active}
\* how many active publishers the input has up to and including index i
ActiveUpTo(i) == Cardinality({j \in ActiveIndices : j <= i})

\* C26: GenerateFromPublishers emits one seller per active publisher, in
\* input order, with seller_id the publisher ID and seller_type PUBLISHER;
\* no inactive publisher appears; is_confidential is 1 exactly for the
\* sellers whose publisher has an empty domain.
C26_SellersFromActivePublishers ==
    spc = "done" =>
        /\ ~sellersOut.isNil
        /\ Len(sellersOut.Sellers) = Cardinality(ActiveIndices)
        /\ \A i \in ActiveIndices :
               LET e == sellersOut.Sellers[ActiveUpTo(i)]
               IN /\ e.SellerID = publishers[i].ID
                  /\ e.SellerType = "PUBLISHER"
                  /\ e.IsConfidential = 1 <=> publishers[i].Domain = ""
                  /\ e.IsConfidential \in {0, 1}

\* C26 witness: a list of an inactive publisher, an active one without a
\* domain and an active one with a domain gave two sellers, the first
\* confidential and the second not.
C26_Witness ==
    /\ spc = "done"
    /\ Len(publishers) = 3
    /\ ~publishers[1].Active
    /\ publishers[2].Active /\ publishers[2].Domain = ""
    /\ publishers[3].Active /\ publishers[3].Domain # ""
    /\ Len(sellersOut.Sellers) = 2
    /\ sellersOut.Sellers[1].IsConfidential = 1
    /\ sellersOut.Sellers[2].IsConfidential = 0

\* the latest Set after the latest Clear was given data that is not nil,
\* and no more than ttl has elapsed since
FreshSet == sinceClear \notin {"none", "nil"} /\ sinceSet <= cacheTTL

ImpressionRecords(b) ==
    Cardinality({i \in 1..Len(impressionLog) : impressionLog[i].BidID = b})
\* the responses the impression endpoint wrote
ImpressionAnswers == {i \in 1..Len(answers) : answers[i].kind = "impression"}
\* nothing is left to run: no handler is in the middle of a request and
\* every logging goroutine has run, or the process is gone
TrackQuiet == ~processUp \/ (handling = NoRequest /\ goroutines = <<>>)

\* C28: N hits of the impression endpoint for one bid id append N
\* impression records carrying that bid id (no append having returned an
\* error), each hit is answered with HTTP 200 and the 43-byte GIF, and no
\* hit changes the auction and publisher-revenue counters.
C28_ImpressionHitsAppendRecords ==
    /\ []((TrackQuiet /\ dropped = 0) =>
              /\ \A b \in BidIDs : ImpressionRecords(b) = hits[b]
              /\ Cardinality(ImpressionAnswers) = hits["bid-1"] + hits["bid-2"])
    /\ [](\A i \in ImpressionAnswers :
              answers[i].status = 200 /\ answers[i].bytes = GifBytes)
    /\ [][(handling.kind = "impression" \/ handling'.kind = "impression") =>
              UNCHANGED <<publisherRevenue, auctionTotal>>]_vars

\* C29: whatever the telemetry sink does (disabled, refused at startup,
\* an append that returns an error), the process keeps serving and every
\* response written is the handler's normal one.
C29_TelemetryNeverStopsServing ==
    /\ processUp
    /\ \A i \in 1..Len(answers) :
           /\ answers[i].kind = "adrequest" => answers[i].status \in {200, 204}
           /\ answers[i].kind \in {"impression", "click"} => answers[i].status = 200

\* every bid of the seatbid list sbs is priced at or above x
AllBidsAtLeast(sbs, x) ==
    \A k \in 1..Len(sbs) : \A b \in 1..Len(sbs[k]) : sbs[k][b].price >= x

\* C30: on the SSAI ingress a response with ads (HTTP 200) is returned only
\* if some partner that answered bid at or above the request's floor_price,
\* every ad of the response is priced at or above floor_price, and when
\* every partner bid is below the floor the answer is 204.
C30_SsaiAdsAtOrAboveFloor ==
    (path = "ssai" /\ fpc = "done") =>
        /\ httpStatus \in {200, 204}
        /\ httpStatus = 200 =>
               /\ \E p \in Responded : HasBidAtLeast(reply[p].seatbid, floor)
               /\ AllBidsAtLeast(winningResponse.seatbid, floor)
        /\ (\A p \in Responded : ~HasBidAtLeast(reply[p].seatbid, floor)) =>
               httpStatus = 204

\* ------------------------------------------------------------------------
\* The Publica ingress
\* ------------------------------------------------------------------------
PubDone == ppc = "done"

\* the bids of the responses processRequest keeps
PubReplyBids ==
    {pubReplies[p].response.seatbid[k][b] :
        <<p, k, b>> \in {t \in PartnerIDs \X (1..3) \X (1..3) :
            /\ ~pubReplies[t[1]].err
            /\ t[2] <= Len(pubReplies[t[1]].response.seatbid)
            /\ t[3] <= Len(pubReplies[t[1]].response.seatbid[t[2]])}}

PubAds == {pubAnswer.ads[i] : i \in 1..Len(pubAnswer.ads)}

\* C31: when the request carried a deal id, every bid that is rendered (the
\* VAST creative, the ads of the SSAI response, each at its own price) is a
\* bid whose dealid equals the request's deal id.
C31_OnlyDealBidsAdmitted ==
    (PubDone /\ pubReq.dealID # "") =>
        \A ad \in PubAds :
            \E bid \in PubReplyBids :
                bid.id = ad.ID /\ bid.dealid = pubReq.dealID

\* params.size is a string of two parts that both parse as decimal integers
WellFormedSize(size) ==
    /\ size.kind = "string"
    /\ Len(Split(size.str)) = 2
    /\ ~ParseInt(Split(size.str)[1]).err
    /\ ~ParseInt(Split(size.str)[2]).err

\* C32: the video of the request HandleSSAI sends is W x H of params.size
\* when that is a well-formed "WxH" string, and 1920 x 1080 otherwise.
C32_SizeParsedOrFullHD ==
    (PubDone /\ pubReq.handler = "HandleSSAI") =>
        IF WellFormedSize(pubReq.size)
        THEN /\ pubBidRequest.W = DecimalValue(Split(pubReq.size.str)[1], 0)
             /\ pubBidRequest.H = DecimalValue(Split(pubReq.size.str)[2], 0)
        ELSE /\ pubBidRequest.W = 1920
             /\ pubBidRequest.H = 1080

\* C38: every bid rendered (the VAST creative, each ad of the SSAI response)
\* is a bid of the highest price among the bids of all valid responses.
C38_RenderedBidsAreHighest ==
    PubDone =>
        \A ad \in PubAds :
            /\ \E bid \in PubReplyBids : bid.id = ad.ID /\ bid.price = ad.CPM
            /\ \A bid \in PubReplyBids : bid.price <= ad.CPM

\* C39: HandleVAST answers every request with a VAST document, the winner's
\* or the empty one, whatever the partners replied.
C39_VastNeverPanics ==
    (PubDone /\ pubReq.handler = "HandleVAST") =>
        /\ pubAnswer.status = 200
        /\ pubAnswer.body \in {"vast", "emptyVAST"}

\* ------------------------------------------------------------------------
\* The ad endpoints
\* ------------------------------------------------------------------------
AdDone == apc = "done"

\* the first lookup of the handler that does not find its row: all three
\* at /ad/request, the placement alone at /vast
FirstFailure(req) ==
    IF req.lookup.placement # "found" THEN req.lookup.placement
    ELSE IF req.endpoint = "/vast" THEN "none"
    ELSE IF req.lookup.site # "found" THEN req.lookup.site
    ELSE IF req.lookup.publisher # "found" THEN req.lookup.publisher
    ELSE "none"

NoPartnerNoAuction == adContacted = {} /\ adAuctions = 0

\* C33: at /ad/request and /vast/{placement_id} a request without a
\* placement identifier is answered 400 and a lookup miss is answered 204,
\* and in both cases no partner is contacted and no auction runs.
C33_MissingIs400NotFoundIs204 ==
    AdDone =>
        /\ adReq.placementID = "" =>
               adAnswer.status = 400 /\ NoPartnerNoAuction
        /\ (adReq.placementID # "" /\ FirstFailure(adReq) = "missing") =>
               adAnswer.status = 204 /\ NoPartnerNoAuction

\* C34: at /ad/request an error of BuildBidRequest, or a lookup that fails
\* for another reason than a missing row, is answered 500.
C34_InternalFailureIs500 ==
    (AdDone /\ adReq.endpoint = "/ad/request" /\ adReq.placementID # "") =>
        /\ FirstFailure(adReq) = "outage" => adAnswer.status = 500
        /\ (FirstFailure(adReq) = "none"
              /\ BuildBidRequest(adReq.placement, 0).err # "nil") =>
               adAnswer.status = 500

\* the nurl with ${AUCTION_PRICE} replaced by price
MacroReplaced(nurl, price) == [prefix |-> nurl.prefix, value |-> price]

\* C35: when the auction closes with a winner whose bid has a nurl, exactly
\* one win notice has been sent, to the winning partner, with the cleared
\* price in place of the macro; otherwise none has been sent.
C35_WinNoticeOnceAtClearedPrice ==
    AdDone =>
        IF ~adResult.isNil /\ adResult.WinningBid.nurl # NoNurl
        THEN winNotices =
                 <<[partner |-> adResult.WinningPartner,
                    url |-> MacroReplaced(adResult.WinningBid.nurl,
                                          adResult.ClearedPrice)]>>
        ELSE winNotices = <<>>

\* ------------------------------------------------------------------------
\* The shared request
\* ------------------------------------------------------------------------
\* C36: the caller's BidRequest, the Source it points to included, stays as
\* processRequest received it, and the request the direct partner is sent
\* is that request.
C36_TransformLeavesCallerRequest ==
    /\ xReq = xOrig
    /\ xSent["B"].sent =>
           xSent["B"] = [sent |-> TRUE, Source |-> xOrig.Source, Ext |-> xOrig.Ext]

\* ------------------------------------------------------------------------
\* The entries of AllBids
\* ------------------------------------------------------------------------
\* C37: every entry of AllBids, and the winner, is a submitted bid that
\* passed the floor check, with its own id and price, and every such bid
\* has its entry.
C37_EntriesDenoteOwnBids ==
    HasResult =>
        /\ \A i \in 1..Len(result.AllBids) : result.AllBids[i] \in AdmittedSet
        /\ \A e \in AdmittedSet :
               \E i \in 1..Len(result.AllBids) : result.AllBids[i] = e
        /\ [Bid |-> result.WinningBid, Partner |-> result.WinningPartner]
               \in AdmittedSet

\* ------------------------------------------------------------------------
\* The PartnerManager
\* ------------------------------------------------------------------------
\* C40: the request SendToPartner issues goes to the endpoint of the
\* partner passed in, with that partner's API key and timeout.
C40_SendToPartnerUsesOwnConfig ==
    pmDelivery.sent =>
        LET p == ManagerPartners[pmDelivery.partner]
        IN /\ pmDelivery.url = p.Endpoint
           /\ pmDelivery.keyHeader # <<>>
           /\ pmDelivery.keyHeader[2] \in {p.APIKey, "Bearer " \o p.APIKey}
           /\ pmDelivery.timeout = p.Timeout

====
